---------------------------- MODULE Spec2Model ----------------------------
(***************************************************************************)
(* A model of mne-pipeline-hd: the pipeline driver script (Pipeline.py),   *)
(* the dock-based main window (gui/main_window.py) and the older flat      *)
(* window with its dictionary-file helpers                                 *)
(* (pipeline_functions/gui_functions.py).                                  *)
(*                                                                         *)
(* Each component has its own specification over the shared variables;     *)
(* the variables of the other components stay at their initial values.     *)
(***************************************************************************)
EXTENDS Integers, Sequences, FiniteSets, TLC

VARIABLES
    \* ---- Pipeline.py (driver script) ----
    exec_ops,           \* the set of keys k with exec_ops[k] truthy
    overwrite,          \* global 'overwrite'
    overwrite_tfr,      \* global 'overwrite_tfr'
    subjects,           \* the selected subjects, a sequence of subject numbers
    erm_dict,           \* keys of erm_dict
    sub_to_mri,         \* keys of sub_to_mri
    bad_channels_dict,  \* keys of bad_channels_dict
    pc,                 \* position of the script: [phase, si, pos]
    name,               \* loop variable 'name'      (Unbound before the loop)
    ermsub,             \* global 'ermsub'           (Unbound until assigned)
    subtomri,           \* global 'subtomri'
    bad_channels,       \* global 'bad_channels'
    calls,              \* the calls made so far, in order
    printed,            \* the messages printed by the subject loop
    failed,             \* "" or the name whose lookup raised NameError
    \* ---- gui/main_window.py (dock-based window) ----
    win,                \* "closed" or "open"
    qs_home,            \* QSettings value 'home_path'
    home_path,          \* MainWindow.home_path
    current_project,    \* MainWindow.current_project
    projects,           \* MainWindow.projects
    settings,           \* MainWindow.settings: key -> value
    json_exists,        \* the home paths that hold mne_pipeline_hd-settings.json
    json_file,          \* home path -> content of its settings file
    disk_projects,      \* home path -> project folders with a data folder
    pr,                 \* the project the Project object was made for
    pipeline_running,   \* MainWindow.pipeline_running
    active_runs,        \* RunDialogs whose worker has not finished
    gui_last,           \* what the last handler did
    closed_with,        \* settings and current_project when closeEvent began
    loaded,             \* what load_settings returned in the last __init__
    \* ---- gui/main_window.py: import_custom_modules ----
    pkgs,               \* the directories of custom_pkg_path, in scandir order
    pd_funcs,           \* MainWindow.pd_funcs: rows [name, pkg_name], in order
    pd_params,          \* MainWindow.pd_params: the index, in order
    all_modules,        \* MainWindow.all_modules['custom']: pkg_name -> modules
    dialogs,            \* the dialogs shown by the last import, in order
    imported,           \* TRUE once import_custom_modules has run on pkgs
    \* ---- pipeline_functions/gui_functions.py (older window) and a run ----
    old_win,            \* "shown" or "closed"
    func_dict,          \* MainWindow.func_dict: function -> 0 or 1
    make_it_stop,       \* MainWindow.make_it_stop
    func_checked,       \* QSettings value 'func_checked'
    main_pc,            \* the main block: "exec", "exit" or "continue"
    steps_run,          \* steps run by the script after the window closed
    old_last,           \* the last button clicked in the older window
    cancel,             \* cancellation requested with cancel_functions
    wk_pc,              \* worker: "between", "in_step", "cancelled", "finished"
    wk_started,         \* steps the worker has started
    wk_done,            \* steps the worker has completed
    wk_late,            \* steps the worker started after the request
    \* ---- subject selection (suborg.file_selection) ----
    which_file,         \* the selection string, a sequence of characters
    sel_expr,           \* the selection the string was written for
    all_files,          \* the number of lines of the file list
    selected,           \* the line numbers file_selection selected
    sel_done,           \* TRUE once file_selection has run
    \* ---- pipeline_functions/gui_functions.py: a dictionary file ----
    dict_isfile,        \* isfile(dict_path)
    dict_text,          \* the content of the file, a sequence of characters
    dict_last,          \* the last operation, its key and the content before it
    \* ---- path set-up: Pipeline.py, make_paths, make_base_paths ----
    fs_dirs,            \* the directories that exist, each a sequence of names
    fs_files,           \* the files that exist: path -> content
    project_name,       \* MainWindow.project_name of the older window
    path_last,          \* the last set-up: its lists and the file system before
    \* ---- gui/main_window.py: the function buttons ----
    bts_win,            \* "closed" or "shown"
    selected_modules,   \* the setting 'selected_modules'
    sel_functions,      \* pr.sel_functions: function -> 0 or 1
    bt_dict,            \* MainWindow.bt_dict: function -> its button is checked
    tab_bts,            \* function -> number of its buttons in tab_func_widget
    bts_last,           \* the last handler and pr.sel_functions before it
    \* ---- gui/main_window.py: get_home_path ----
    hp,                 \* the local hp of get_home_path
    hp_pc,              \* "checking", "returned" or "raised"
    hp_home,            \* MainWindow.home_path (PyNone until assigned)
    hp_stored,          \* QSettings value 'home_path'
    hp_base,            \* home path -> its base directories that exist
    hp_n,               \* the passes of the loop so far
    hp_last,            \* the last pass: hp before it, the dialogs shown
    \* ---- pipeline_functions/gui_functions.py: make_func_bts ----
    all_fs,             \* opd.all_fs of the program started: function -> 0 or 1
    fb_cached,          \* the QSettings hold a value 'func_checked'
    fb_cache,           \* that value: function -> 0 or 1
    fb_pc,              \* "closed" or "shown"
    fb_func_dict,       \* MainWindow.func_dict of the window shown
    fb_bt_dict,         \* MainWindow.bt_dict: function -> its button is checked
    fb_last,            \* the last handler, the cache before it, pre_func_dict
    \* ---- custom_functions/melofix.py: melofix_event_handling ----
    events,             \* events[:, 2], the ids of the events array
    mf_pc,              \* "read", "loop", "written" or "raised"
    mf_n,               \* the loop variable n
    eve_file,           \* the ids written to <name>-eve.fif, PyNone before
    mf_last             \* the last pass of the loop: n and the ids before it

drvVars == <<exec_ops, overwrite, overwrite_tfr, subjects, erm_dict, sub_to_mri,
             bad_channels_dict, pc, name, ermsub, subtomri, bad_channels,
             calls, printed, failed>>

guiVars == <<win, qs_home, home_path, current_project, projects, settings,
             json_exists, json_file, disk_projects, pr, pipeline_running,
             active_runs, gui_last, closed_with, loaded>>

impVars == <<pkgs, pd_funcs, pd_params, all_modules, dialogs, imported>>

oldVars == <<old_win, func_dict, make_it_stop, func_checked, main_pc, steps_run,
             old_last, cancel, wk_pc, wk_started, wk_done, wk_late>>

selVars == <<which_file, sel_expr, all_files, selected, sel_done>>

dictVars == <<dict_isfile, dict_text, dict_last>>

pathVars == <<fs_dirs, fs_files, project_name, path_last>>

btsVars == <<bts_win, selected_modules, sel_functions, bt_dict, tab_bts, bts_last>>

hpVars == <<hp, hp_pc, hp_home, hp_stored, hp_base, hp_n, hp_last>>

fbVars == <<all_fs, fb_cached, fb_cache, fb_pc, fb_func_dict, fb_bt_dict, fb_last>>

mfVars == <<events, mf_pc, mf_n, eve_file, mf_last>>

vars == <<drvVars, guiVars, impVars, oldVars, selVars, dictVars, pathVars, btsVars, hpVars, fbVars, mfVars>>

\* what the actions of one component leave alone
notDrv == <<guiVars, impVars, oldVars, selVars, dictVars, pathVars, btsVars, hpVars, fbVars, mfVars>>
notGui == <<drvVars, impVars, oldVars, selVars, dictVars, pathVars, btsVars, hpVars, fbVars, mfVars>>
notImp == <<drvVars, guiVars, oldVars, selVars, dictVars, pathVars, btsVars, hpVars, fbVars, mfVars>>
notOld == <<drvVars, guiVars, impVars, selVars, dictVars, pathVars, btsVars, hpVars, fbVars, mfVars>>
notSel == <<drvVars, guiVars, impVars, oldVars, dictVars, pathVars, btsVars, hpVars, fbVars, mfVars>>
notDict == <<drvVars, guiVars, impVars, oldVars, selVars, pathVars, btsVars, hpVars, fbVars, mfVars>>
notPath == <<drvVars, guiVars, impVars, oldVars, selVars, dictVars, btsVars, hpVars, fbVars, mfVars>>
notBts == <<drvVars, guiVars, impVars, oldVars, selVars, dictVars, pathVars, hpVars, fbVars, mfVars>>
notHp == <<drvVars, guiVars, impVars, oldVars, selVars, dictVars, pathVars, btsVars, fbVars, mfVars>>
notFb == <<drvVars, guiVars, impVars, oldVars, selVars, dictVars, pathVars, btsVars, hpVars, mfVars>>
notMf == <<drvVars, guiVars, impVars, oldVars, selVars, dictVars, pathVars, btsVars, hpVars, fbVars>>

(***************************************************************************)
(* Bounds                                                                  *)
(***************************************************************************)
NumSubjects == 2     \* lines of sub_list.py
NumMriSubjects == 1  \* selected lines of mri_sub_list.py
MaxEnabled  == 2     \* how many of the toggled exec_ops are switched on
MaxRuns     == 2     \* RunDialogs that may exist at once before Start is cut off
MaxSteps    == 3     \* steps of one run
NumFiles    == 26    \* lines of the longest file list
MaxPrompts  == 3     \* passes of the loop of get_home_path
MaxEvents   == 6     \* rows of the events array

Unbound == 0         \* a global that was never assigned

(***************************************************************************)
(* The resting state of each component, taken by the specifications of     *)
(* the other components.                                                   *)
(***************************************************************************)
EmptyDict == [k \in {} |-> <<>>]

DriverIdle ==
    /\ exec_ops = {} /\ overwrite = TRUE /\ overwrite_tfr = FALSE
    /\ subjects = <<>> /\ erm_dict = {} /\ sub_to_mri = {}
    /\ bad_channels_dict = {}
    /\ pc = [phase |-> "done", si |-> 0, pos |-> 0]
    /\ name = Unbound /\ ermsub = Unbound /\ subtomri = Unbound
    /\ bad_channels = Unbound
    /\ calls = <<>> /\ printed = <<>> /\ failed = ""

GuiIdle ==
    /\ win = "closed" /\ qs_home = "" /\ home_path = ""
    /\ current_project = "" /\ projects = {} /\ settings = EmptyDict
    /\ json_exists = {} /\ json_file = EmptyDict /\ disk_projects = EmptyDict
    /\ pr = "" /\ pipeline_running = FALSE /\ active_runs = 0
    /\ gui_last = [op |-> "none"] /\ closed_with = EmptyDict
    /\ loaded = EmptyDict

ImpIdle ==
    /\ pkgs = <<>> /\ pd_funcs = <<>> /\ pd_params = <<>>
    /\ all_modules = EmptyDict /\ dialogs = <<>> /\ imported = FALSE

OldIdle ==
    /\ old_win = "closed" /\ func_dict = EmptyDict /\ make_it_stop = FALSE
    /\ func_checked = EmptyDict /\ main_pc = "continue" /\ steps_run = 0
    /\ old_last = "none" /\ cancel = FALSE /\ wk_pc = "finished"
    /\ wk_started = 0 /\ wk_done = 0 /\ wk_late = 0

SelIdle ==
    /\ which_file = <<>> /\ sel_expr = <<>> /\ all_files = 0
    /\ selected = {} /\ sel_done = FALSE

DictIdle ==
    /\ dict_isfile = FALSE /\ dict_text = <<>>
    /\ dict_last = [op |-> "none"]

PathIdle ==
    /\ fs_dirs = {} /\ fs_files = EmptyDict /\ project_name = ""
    /\ path_last = [op |-> "none"]

BtsIdle ==
    /\ bts_win = "closed" /\ selected_modules = {} /\ sel_functions = EmptyDict
    /\ bt_dict = EmptyDict /\ tab_bts = EmptyDict /\ bts_last = [op |-> "none"]

HpIdle ==
    /\ hp = Unbound /\ hp_pc = "returned" /\ hp_home = Unbound
    /\ hp_stored = Unbound /\ hp_base = EmptyDict /\ hp_n = 0
    /\ hp_last = [op |-> "none"]

FbIdle ==
    /\ all_fs = EmptyDict /\ fb_cached = FALSE /\ fb_cache = EmptyDict
    /\ fb_pc = "closed" /\ fb_func_dict = EmptyDict /\ fb_bt_dict = EmptyDict
    /\ fb_last = [op |-> "none"]

MfIdle ==
    /\ events = <<>> /\ mf_pc = "written" /\ mf_n = 0 /\ eve_file = <<>>
    /\ mf_last = [op |-> "none"]

(***************************************************************************)
(* Pipeline.py: the tables of conditional calls, in script order.          *)
(* key: the exec_ops key guarding the call; ow: which overwrite variable   *)
(* the call receives; uses: the globals bound in the subject loop that the *)
(* call reads, in argument order.                                          *)
(***************************************************************************)
St(key, ow, uses) == [key |-> key, ow |-> ow, uses |-> uses]

OrgSteps == <<
    St("add_subjects", "none", <<>>),
    St("add_mri_subjects", "none", <<>>),
    St("add_sub_dict", "none", <<>>),
    St("add_erm_dict", "none", <<>>),
    St("add_bad_channels", "none", <<>>) >>

MriSteps == <<
    St("apply_watershed", "overwrite", <<>>),
    St("make_dense_scalp_surfaces", "overwrite", <<>>),
    St("setup_source_space", "overwrite", <<>>),
    St("prepare_bem", "overwrite", <<>>),
    St("morph_subject", "overwrite", <<>>),
    St("plot_source_space", "none", <<>>),
    St("plot_bem", "none", <<>>),
    St("plot_labels", "none", <<>>),
    St("close_plots", "none", <<>>) >>

SubjectSteps == <<
    St("filter_raw", "overwrite", <<"ermsub", "bad_channels">>),
    St("find_events", "overwrite", <<>>),
    St("find_eog_events", "none", <<>>),
    St("epoch_raw", "overwrite", <<"bad_channels">>),
    St("run_ssp_er", "overwrite", <<"ermsub", "bad_channels">>),
    St("apply_ssp_er", "overwrite", <<>>),
    St("run_ssp_clm", "overwrite", <<"bad_channels">>),
    St("apply_ssp_clm", "overwrite", <<>>),
    St("run_ssp_eog", "overwrite", <<"bad_channels">>),
    St("apply_ssp_eog", "overwrite", <<>>),
    St("run_ssp_ecg", "overwrite", <<"bad_channels">>),
    St("apply_ssp_ecg", "overwrite", <<>>),
    St("plot_ssp", "none", <<"bad_channels", "ermsub">>),
    St("plot_ssp_eog", "none", <<"bad_channels">>),
    St("run_ica", "overwrite", <<"bad_channels">>),
    St("apply_ica", "overwrite", <<>>),
    St("get_evokeds", "overwrite", <<"ermsub">>),
    St("tfr", "overwrite_tfr", <<>>),
    St("estimate_noise_covariance", "overwrite", <<"ermsub", "bad_channels">>),
    St("plot_noise_covariance", "none", <<"subtomri", "ermsub">>),
    St("mri_coreg", "none", <<"subtomri">>),
    St("plot_transformation", "none", <<"subtomri">>),
    St("create_forward_solution", "overwrite", <<"subtomri">>),
    St("create_inverse_operator", "overwrite", <<"ermsub">>),
    St("source_estimate", "overwrite", <<>>),
    St("vector_source_estimate", "overwrite", <<>>),
    St("ECD_fit", "none", <<"ermsub", "subtomri">>),
    St("apply_morph", "overwrite", <<"subtomri">>),
    St("print_info", "none", <<>>),
    St("plot_sensors", "none", <<>>),
    St("plot_raw", "overwrite", <<"bad_channels">>),
    St("plot_filtered", "none", <<"bad_channels">>),
    St("plot_events", "none", <<>>),
    St("plot_events_diff", "none", <<>>),
    St("plot_eog_events", "none", <<>>),
    St("plot_power_spectra", "none", <<"bad_channels">>),
    St("plot_power_spectra_epochs", "none", <<"bad_channels">>),
    St("plot_power_spectra_topo", "none", <<"bad_channels">>),
    St("plot_tfr", "none", <<>>),
    St("tfr_event_dynamics", "none", <<"bad_channels">>),
    St("plot_epochs", "none", <<>>),
    St("plot_epochs_image", "none", <<>>),
    St("plot_epochs_topo", "none", <<>>),
    St("plot_epochs_drop_log", "none", <<>>),
    St("plot_evoked_topo", "none", <<>>),
    St("plot_evoked_topomap", "none", <<>>),
    St("plot_butterfly_evokeds", "none", <<"ermsub">>),
    St("plot_evoked_field", "none", <<"subtomri">>),
    St("plot_evoked_joint", "none", <<>>),
    St("plot_evoked_white", "none", <<"ermsub">>),
    St("plot_evoked_image", "none", <<>>),
    St("plot_source_estimates", "none", <<"subtomri">>),
    St("plot_vector_source_estimates", "none", <<"subtomri">>),
    St("plot_animated_stc", "none", <<"subtomri">>),
    St("plot_snr", "none", <<>>),
    St("label_time_course", "none", <<"subtomri">>),
    St("tf_label_power_phlck", "none", <<"subtomri">>),
    St("source_space_connectivity", "overwrite", <<"subtomri">>),
    St("plot_source_space_connectivity", "none", <<"subtomri">>),
    St("corr_ntr", "none", <<"ermsub", "subtomri">>),
    St("close_plots", "none", <<>>) >>

GroupSteps == <<
    St("cmp_label_time_course", "none", <<>>),
    St("grand_avg_evokeds", "none", <<>>),
    St("grand_avg_tfr", "none", <<>>),
    St("grand_avg_morphed", "none", <<>>),
    St("grand_avg_connect", "none", <<>>),
    St("plot_grand_avg_evokeds", "none", <<>>),
    St("plot_grand_avg_tfr", "none", <<>>),
    St("plot_grand_avg_stc", "none", <<>>),
    St("plot_grand_avg_stc_anim", "none", <<>>),
    St("plot_grand_avg_connect", "none", <<>>),
    St("statistics_source_space", "overwrite", <<>>),
    St("plot_grand_averages_source_estimates_cluster_masked", "none", <<"name">>),
    St("close_plots", "none", <<>>) >>

\* The exec_ops keys the model switches on and off; every other key is off.
Toggled == {"add_erm_dict", "mri_preprocessing", "apply_watershed",
            "filter_raw", "find_events", "epoch_raw", "tfr",
            "plot_noise_covariance", "corr_ntr", "close_plots",
            "cmp_label_time_course", "grand_avg_evokeds",
            "statistics_source_space",
            "plot_grand_averages_source_estimates_cluster_masked"}

(***************************************************************************)
(* Pipeline.py: the script as a state machine                              *)
(***************************************************************************)
RECURSIVE KSub(_, _)
\* the subsets of S with at most k elements
KSub(S, k) == IF k = 0 THEN {{}}
              ELSE {T \cup {x} : T \in KSub(S, k - 1), x \in S}

AllSubjects == 1..NumSubjects
Prefix(n) == [i \in 1..n |-> i]

\* (mutant) the next position whether or not its key is switched on
NextPos_IgnoringExecOps(table, pos) == IF pos < Len(table) THEN pos + 1 ELSE 0

\* the first position after pos whose key is switched on, 0 if there is none
NextPos(table, pos) ==
    LET on == {i \in (pos + 1)..Len(table) : table[i].key \in exec_ops}
    IN  IF on = {} THEN 0 ELSE CHOOSE i \in on : \A j \in on : i <= j

Global(v) == CASE v = "ermsub" -> ermsub
               [] v = "subtomri" -> subtomri
               [] v = "bad_channels" -> bad_channels
               [] v = "name" -> name

\* the first global, in argument order, that the call reads unbound ("" if none)
FirstUnbound(uses) ==
    LET bad == {i \in 1..Len(uses) : Global(uses[i]) = Unbound}
    IN  IF bad = {} THEN ""
        ELSE uses[CHOOSE i \in bad : \A j \in bad : i <= j]

OwValue(ow) == CASE ow = "overwrite" -> overwrite
                 [] ow = "overwrite_tfr" -> overwrite_tfr
                 [] OTHER -> FALSE

Arg(step, v) == IF \E i \in 1..Len(step.uses) : step.uses[i] = v
                THEN Global(v) ELSE Unbound

Call(site, step, subj) ==
    [site |-> site, key |-> step.key, subj |-> subj,
     ow |-> step.ow, owval |-> OwValue(step.ow),
     erm |-> Arg(step, "ermsub"), mri |-> Arg(step, "subtomri"),
     bad |-> Arg(step, "bad_channels")]

\* the call of an add function made by an except-branch of the subject loop
Recover(key, subj) ==
    [site |-> "recover", key |-> key, subj |-> subj, ow |-> "none",
     owval |-> FALSE, erm |-> Unbound, mri |-> Unbound, bad |-> Unbound]

\* one conditional call: `if exec_ops[key]: module.function(...)`
Invoke(site, step, subj, nextpc) ==
    LET u == FirstUnbound(step.uses)
    IN  IF u # ""
        THEN /\ failed' = u
             /\ pc' = [pc EXCEPT !.phase = "failed"]
             /\ calls' = calls
        ELSE /\ failed' = failed
             /\ pc' = nextpc
             /\ calls' = Append(calls, Call(site, step, subj))

DriverInit ==
    /\ exec_ops \in KSub(Toggled, MaxEnabled)
    /\ overwrite \in BOOLEAN
    /\ overwrite_tfr \in BOOLEAN
    /\ \E n \in 0..NumSubjects : subjects = Prefix(n)
    /\ \E d \in {"none", "erm", "mri", "bad"}, s \in AllSubjects :
          /\ erm_dict = IF d = "erm" THEN AllSubjects \ {s} ELSE AllSubjects
          /\ sub_to_mri = IF d = "mri" THEN AllSubjects \ {s} ELSE AllSubjects
          /\ bad_channels_dict = IF d = "bad" THEN AllSubjects \ {s}
                                 ELSE AllSubjects
    /\ pc = [phase |-> "org", si |-> 0, pos |-> 0]
    /\ name = Unbound /\ ermsub = Unbound /\ subtomri = Unbound
    /\ bad_channels = Unbound
    /\ calls = <<>> /\ printed = <<>> /\ failed = ""

DriverConfig == <<exec_ops, overwrite, overwrite_tfr, subjects, erm_dict,
                  sub_to_mri, bad_channels_dict>>
LoopGlobals == <<name, ermsub, subtomri, bad_channels>>

\* lines 198-216
OrgStep ==
    /\ pc.phase = "org" /\ NextPos(OrgSteps, pc.pos) # 0
    /\ LET i == NextPos(OrgSteps, pc.pos)
       IN  Invoke("org", OrgSteps[i], 0, [pc EXCEPT !.pos = i])
    /\ UNCHANGED <<notDrv, DriverConfig, LoopGlobals, printed>>

\* line 229
OrgDone ==
    /\ pc.phase = "org" /\ NextPos(OrgSteps, pc.pos) = 0
    /\ pc' = IF "mri_preprocessing" \in exec_ops /\ NumMriSubjects > 0
             THEN [phase |-> "mri", si |-> 1, pos |-> 0]
             ELSE [phase |-> "next", si |-> 0, pos |-> 0]
    /\ UNCHANGED <<notDrv, DriverConfig, LoopGlobals, calls, printed, failed>>

\* lines 237-280
MriStep ==
    /\ pc.phase = "mri" /\ NextPos(MriSteps, pc.pos) # 0
    /\ LET i == NextPos(MriSteps, pc.pos)
       IN  Invoke("mri", MriSteps[i], pc.si, [pc EXCEPT !.pos = i])
    /\ UNCHANGED <<notDrv, DriverConfig, LoopGlobals, printed>>

MriNext ==
    /\ pc.phase = "mri" /\ NextPos(MriSteps, pc.pos) = 0
    /\ pc' = IF pc.si < NumMriSubjects
             THEN [phase |-> "mri", si |-> pc.si + 1, pos |-> 0]
             ELSE [phase |-> "next", si |-> 0, pos |-> 0]
    /\ UNCHANGED <<notDrv, DriverConfig, LoopGlobals, calls, printed, failed>>

\* lines 305-340: the head of one iteration of `for name in subjects`
SubjectHeader ==
    /\ pc.phase = "next" /\ pc.si < Len(subjects)
    /\ LET s == subjects[pc.si + 1]
           noErm == s \notin erm_dict
           noMri == s \notin sub_to_mri
           noBad == s \notin bad_channels_dict
       IN  /\ name' = s
           /\ ermsub' = IF noErm THEN ermsub ELSE s
           /\ subtomri' = IF noMri THEN subtomri ELSE s
           /\ bad_channels' = IF noBad THEN bad_channels ELSE s
           /\ printed' = printed
                  \o (IF noErm THEN <<<<"No erm_measurement for", s>>>> ELSE <<>>)
                  \o (IF noMri THEN <<<<"No mri_subject assigned to", s>>>> ELSE <<>>)
                  \o (IF noBad THEN <<<<"No bad channels for", s>>>> ELSE <<>>)
           /\ calls' = calls
                  \o (IF noErm THEN <<Recover("add_erm_dict", s)>> ELSE <<>>)
                  \o (IF noMri THEN <<Recover("add_sub_dict", s)>> ELSE <<>>)
                  \o (IF noBad THEN <<Recover("add_bad_channels_dict", s)>> ELSE <<>>)
           /\ pc' = [phase |-> "loop", si |-> pc.si + 1, pos |-> 0]
    /\ UNCHANGED <<notDrv, DriverConfig, failed>>

\* lines 346-672
SubjectStep ==
    /\ pc.phase = "loop" /\ NextPos(SubjectSteps, pc.pos) # 0
    /\ LET i == NextPos(SubjectSteps, pc.pos)
       IN  Invoke("subject", SubjectSteps[i], name, [pc EXCEPT !.pos = i])
    /\ UNCHANGED <<notDrv, DriverConfig, LoopGlobals, printed>>

SubjectEnd ==
    /\ pc.phase = "loop" /\ NextPos(SubjectSteps, pc.pos) = 0
    /\ pc' = [pc EXCEPT !.phase = "next"]
    /\ UNCHANGED <<notDrv, DriverConfig, LoopGlobals, calls, printed, failed>>

\* line 674: GOING OUT OF SUBJECT LOOP
LoopExit ==
    /\ pc.phase = "next" /\ pc.si = Len(subjects)
    /\ pc' = [phase |-> "group", si |-> pc.si, pos |-> 0]
    /\ UNCHANGED <<notDrv, DriverConfig, LoopGlobals, calls, printed, failed>>

\* lines 676-754
GroupStep ==
    /\ pc.phase = "group" /\ NextPos(GroupSteps, pc.pos) # 0
    /\ LET i == NextPos(GroupSteps, pc.pos)
       IN  Invoke("group", GroupSteps[i], 0, [pc EXCEPT !.pos = i])
    /\ UNCHANGED <<notDrv, DriverConfig, LoopGlobals, printed>>

GroupEnd ==
    /\ pc.phase = "group" /\ NextPos(GroupSteps, pc.pos) = 0
    /\ pc' = [pc EXCEPT !.phase = "done"]
    /\ UNCHANGED <<notDrv, DriverConfig, LoopGlobals, calls, printed, failed>>

DriverNext ==
    \/ OrgStep \/ OrgDone \/ MriStep \/ MriNext \/ SubjectHeader
    \/ SubjectStep \/ SubjectEnd \/ LoopExit \/ GroupStep \/ GroupEnd

InitDriver == DriverInit /\ GuiIdle /\ ImpIdle /\ OldIdle /\ SelIdle /\ DictIdle /\ PathIdle
               /\ BtsIdle
               /\ HpIdle
               /\ FbIdle
               /\ MfIdle
SpecDriver == InitDriver /\ [][DriverNext]_vars

(***************************************************************************)
(* gui/main_window.py: settings, projects and the start of a run           *)
(***************************************************************************)
Homes == {"h1", "h2"}
NewNames == {"p3"}                   \* what the user types into 'New Project'
SettingKeys == {"current_project", "dark_mode", "dpi", "selected_modules"}

\* Python values, tagged with their type
PyNone == <<"none">>
PyBool(b) == <<"bool", b>>
PyInt(n) == <<"int", n>>
PyStr(x) == <<"str", x>>
PyList(xs) == <<"list", xs>>
PyTuple(xs) == <<"tuple", xs>>

Put(d, k, v) == [x \in DOMAIN d \cup {k} |-> IF x = k THEN v ELSE d[x]]

\* json.dump: a Python value as the JSON value written to the file
ToJsonScalar(v) ==
    CASE v[1] = "none" -> <<"null">>
      [] v[1] = "bool" -> IF v[2] THEN <<"true">> ELSE <<"false">>
      [] v[1] = "int" -> <<"number", v[2]>>
      [] v[1] = "str" -> <<"string", v[2]>>
ToJson(v) ==
    IF v[1] \in {"list", "tuple"}
    THEN <<"array", [i \in 1..Len(v[2]) |-> ToJsonScalar(v[2][i])]>>
    ELSE ToJsonScalar(v)
Dump(d) == [k \in DOMAIN d |-> ToJson(d[k])]

\* json.load: a JSON value of the file as a Python value
FromJsonScalar(j) ==
    CASE j[1] = "null" -> PyNone
      [] j[1] = "true" -> PyBool(TRUE)
      [] j[1] = "false" -> PyBool(FALSE)
      [] j[1] = "number" -> PyInt(j[2])
      [] j[1] = "string" -> PyStr(j[2])
FromJson(j) ==
    IF j[1] = "array"
    THEN PyList([i \in 1..Len(j[2]) |-> FromJsonScalar(j[2][i])])
    ELSE FromJsonScalar(j)
Load(doc) == [k \in DOMAIN doc |-> FromJson(doc[k])]

\* resources/default_settings.json
default_settings ==
    [current_project |-> PyNone, dark_mode |-> PyBool(FALSE),
     dpi |-> PyInt(300),
     selected_modules |-> PyList(<<PyStr("operations"), PyStr("plot")>>)]

\* a settings file written by an earlier version: some keys only
OlderFile == Dump([current_project |-> PyStr("p2"), dark_mode |-> PyBool(TRUE)])

\* (mutant) load_settings without the loop over the missing defaults
LoadSettings_FileOnly(h, exists, files) ==
    IF h \in exists THEN Load(files[h]) ELSE default_settings

\* load_settings, reading the file of home path h
LoadSettings(h, exists, files) ==
    IF h \in exists
    THEN LET read == Load(files[h])
         IN  [k \in DOMAIN read \cup DOMAIN default_settings |->
                 IF k \in DOMAIN read THEN read[k] ELSE default_settings[k]]
    ELSE default_settings

\* get_setting
GetSetting(d, k) == IF k \in DOMAIN d THEN d[k] ELSE default_settings[k]

\* (mutant) save_main without `self.settings['current_project'] = ...`
SavedSettings_ProjectNotStored == settings

\* save_main: the settings as save_settings writes them
SavedSettings == Put(settings, "current_project", PyStr(current_project))

\* (mutant) save_main without save_settings
SavedFiles_NotWritten == json_file

\* save_settings: the file of the current home path after save_main
SavedFiles == [json_file EXCEPT ![home_path] = Dump(SavedSettings)]

\* get_projects: the project to select, given the projects found and the
\* first name that listdir returned
SelectedProject(d, found, first) ==
    LET cur == GetSetting(d, "current_project")
    IN  IF cur[1] = "str" /\ cur[2] \in found THEN cur[2] ELSE first

Last(op) == [op |-> op]

\* what a handler that switches the project found when it was called, and
\* the Project object its save_main saved
Switch(op) ==
    [op |-> op, saved_pr |-> pr,
     before |-> [pr |-> pr, current_project |-> current_project,
                 home_path |-> home_path, projects |-> projects]]

GuiInit ==
    /\ win = "closed" /\ qs_home = "h1" /\ home_path = ""
    /\ current_project = "" /\ projects = {} /\ settings = EmptyDict
    /\ json_exists \in SUBSET Homes
    /\ json_file = [h \in Homes |-> IF h \in json_exists THEN OlderFile
                                     ELSE EmptyDict]
    /\ disk_projects = [h \in Homes |-> IF h = "h1" THEN {"p1", "p2"}
                                         ELSE {"p2"}]
    /\ pr = "" /\ pipeline_running = FALSE /\ active_runs = 0
    /\ gui_last = Last("none") /\ closed_with = EmptyDict
    /\ loaded = EmptyDict

\* MainWindow.__init__: get_home_path, load_settings, get_projects, Project
Construct ==
    /\ win = "closed"
    /\ \E first \in disk_projects[qs_home] :
          LET d == LoadSettings(qs_home, json_exists, json_file)
              p == SelectedProject(d, disk_projects[qs_home], first)
          IN  /\ loaded' = d
              /\ settings' = IF GetSetting(d, "current_project") # PyStr(p)
                             THEN Put(d, "current_project", PyStr(p)) ELSE d
              /\ current_project' = p
              /\ pr' = p
    /\ home_path' = qs_home
    /\ projects' = disk_projects[qs_home]
    /\ win' = "open"
    /\ pipeline_running' = FALSE /\ active_runs' = 0
    /\ gui_last' = Last("init")
    /\ UNCHANGED <<notGui, qs_home, json_exists, json_file, disk_projects,
                   closed_with>>

\* dark_mode: the View menu's check box was toggled
DarkMode ==
    /\ win = "open"
    /\ \E checked \in BOOLEAN :
          settings' = Put(settings, "dark_mode", PyBool(checked))
    /\ gui_last' = Last("dark_mode")
    /\ UNCHANGED <<notGui, win, qs_home, home_path, current_project, projects,
                   json_exists, json_file, disk_projects, pr, pipeline_running,
                   active_runs>>
    /\ closed_with' = EmptyDict /\ loaded' = EmptyDict

\* project_changed(idx)
ProjectChanged ==
    /\ win = "open"
    /\ \E p \in projects :
          /\ current_project' = p
          /\ pr' = p
          /\ disk_projects' = [disk_projects EXCEPT ![home_path] = @ \cup {p}]
    /\ settings' = SavedSettings
    /\ json_file' = SavedFiles
    /\ json_exists' = json_exists \cup {home_path}
    /\ gui_last' = Switch("project_changed")
    /\ UNCHANGED <<notGui, win, qs_home, home_path, projects, pipeline_running,
                   active_runs>>
    /\ closed_with' = EmptyDict /\ loaded' = EmptyDict

\* (mutant) add_project without `if ok`
Accepted_Always(ok) == TRUE

\* add_project: `if ok`
Accepted(ok) == ok

\* add_project
AddProject ==
    /\ win = "open"
    /\ json_file' = SavedFiles
    /\ json_exists' = json_exists \cup {home_path}
    /\ \E ok \in BOOLEAN, project \in NewNames :
          /\ gui_last' = Switch(IF ok THEN "add_project"
                                ELSE "add_project_cancelled")
          /\ IF Accepted(ok)
             THEN /\ current_project' = project
                  /\ settings' = Put(SavedSettings, "current_project", PyStr(project))
                  /\ projects' = projects \cup {project}
                  /\ pr' = project
                  /\ disk_projects' =
                        [disk_projects EXCEPT ![home_path] = @ \cup {project}]
             ELSE /\ settings' = SavedSettings
                  /\ UNCHANGED <<current_project, projects, pr, disk_projects>>
    /\ UNCHANGED <<notGui, win, qs_home, home_path, pipeline_running,
                   active_runs>>
    /\ closed_with' = EmptyDict /\ loaded' = EmptyDict

\* change_home_path
ChangeHomePath ==
    /\ win = "open"
    /\ \E new_home_path \in Homes \cup {""} :
          IF new_home_path # ""
          THEN LET files == SavedFiles
                   exists == json_exists \cup {home_path}
                   d == LoadSettings(new_home_path, exists, files)
               IN  \E first \in disk_projects[new_home_path] :
                      LET p == SelectedProject(d, disk_projects[new_home_path], first)
                      IN  /\ json_file' = files
                          /\ json_exists' = exists
                          /\ home_path' = new_home_path
                          /\ qs_home' = new_home_path
                          /\ settings' =
                                IF GetSetting(d, "current_project") # PyStr(p)
                                THEN Put(d, "current_project", PyStr(p)) ELSE d
                          /\ projects' = disk_projects[new_home_path]
                          /\ current_project' = p
                          /\ pr' = p
                          /\ gui_last' = Switch("change_home_path")
          ELSE /\ json_file' = SavedFiles
               /\ json_exists' = json_exists \cup {home_path}
               /\ settings' = SavedSettings
               /\ gui_last' = Switch("change_home_path_cancelled")
               /\ UNCHANGED <<home_path, qs_home, projects, current_project, pr>>
    /\ UNCHANGED <<notGui, win, disk_projects, pipeline_running, active_runs>>
    /\ closed_with' = EmptyDict /\ loaded' = EmptyDict

\* remove_project: save_main, then the RemoveProjectsDlg, in which the user
\* removes a project other than the current one, or nothing
RemoveProject ==
    /\ win = "open"
    /\ settings' = SavedSettings
    /\ json_file' = SavedFiles
    /\ json_exists' = json_exists \cup {home_path}
    /\ \E removed \in SUBSET (projects \ {current_project}) :
          /\ Cardinality(removed) <= 1
          /\ projects' = projects \ removed
          /\ disk_projects' = [disk_projects EXCEPT ![home_path] = @ \ removed]
    /\ gui_last' = Switch("remove_project")
    /\ UNCHANGED <<notGui, win, qs_home, home_path, current_project, pr,
                   pipeline_running, active_runs>>
    /\ closed_with' = EmptyDict /\ loaded' = EmptyDict

\* RunDialog(self): the dialog starts its worker and marks the pipeline running
RunDialog ==
    /\ pipeline_running' = TRUE
    /\ active_runs' = active_runs + 1

\* (mutant) start without the test of pipeline_running
StartAllowed_Always == TRUE

\* start: `if self.pipeline_running` ... `else`
StartAllowed == ~pipeline_running

\* what start() did: `running` is pipeline_running when it was called,
\* `reloaded` whether reload_basic_modules and reload_custom_modules returned
Started(warned, saved, reloaded, created) ==
    [op |-> "start", running |-> pipeline_running, warned |-> warned,
     saved |-> saved, saved_pr |-> IF saved THEN pr ELSE "",
     reloaded |-> reloaded, created |-> created,
     before |-> [settings |-> settings, json_file |-> json_file,
                 json_exists |-> json_exists]]

\* start
Start ==
    /\ win = "open" /\ active_runs < MaxRuns
    /\ IF ~StartAllowed
       THEN /\ gui_last' = Started(TRUE, FALSE, FALSE, FALSE)
            /\ UNCHANGED <<settings, json_file, json_exists, pipeline_running,
                           active_runs>>
       ELSE /\ settings' = SavedSettings
            /\ json_file' = SavedFiles
            /\ json_exists' = json_exists \cup {home_path}
            /\ \E reloaded \in BOOLEAN :
                  IF reloaded
                  THEN /\ RunDialog
                       /\ gui_last' = Started(FALSE, TRUE, TRUE, TRUE)
                  ELSE /\ gui_last' = Started(FALSE, TRUE, FALSE, FALSE)
                       /\ UNCHANGED <<pipeline_running, active_runs>>
    /\ UNCHANGED <<notGui, win, qs_home, home_path, current_project, projects,
                   disk_projects, pr>>
    /\ closed_with' = EmptyDict /\ loaded' = EmptyDict

\* the worker of a RunDialog has finished
RunFinished ==
    /\ active_runs > 0
    /\ active_runs' = active_runs - 1
    /\ pipeline_running' = FALSE
    /\ gui_last' = Last("run_finished")
    /\ UNCHANGED <<notGui, win, qs_home, home_path, current_project, projects,
                   settings, json_exists, json_file, disk_projects, pr>>
    /\ closed_with' = EmptyDict /\ loaded' = EmptyDict

\* closeEvent
CloseEvent ==
    /\ win = "open"
    /\ closed_with' = [settings |-> settings, project |-> current_project]
    /\ settings' = SavedSettings
    /\ json_file' = SavedFiles
    /\ json_exists' = json_exists \cup {home_path}
    /\ win' = "closed"
    /\ gui_last' = Last("close")
    /\ UNCHANGED <<notGui, qs_home, home_path, current_project, projects,
                   disk_projects, pr, pipeline_running, active_runs>>
    /\ loaded' = EmptyDict

GuiNext ==
    \/ Construct \/ DarkMode \/ ProjectChanged \/ AddProject \/ RemoveProject
    \/ ChangeHomePath \/ Start \/ RunFinished \/ CloseEvent

InitGui == GuiInit /\ DriverIdle /\ ImpIdle /\ OldIdle /\ SelIdle /\ DictIdle /\ PathIdle
               /\ BtsIdle
               /\ HpIdle
               /\ FbIdle
               /\ MfIdle
SpecGui == InitGui /\ [][GuiNext]_vars

(***************************************************************************)
(* gui/main_window.py: import_custom_modules                               *)
(***************************************************************************)
DirNames == {"pkgA", "pkgB", ".git"}
FileNames == {"pkg_functions.csv", "pkg_parameters.csv", "good.py", "bad.py",
              "_private.py"}

\* `not d.name.startswith('.')` and `not f.startswith(('.', '_'))`
HiddenDir(d) == d = ".git"
HiddenFile(f) == f = "_private.py"

\* which of the three regular expressions matches a file name, in the order
\* of the if/elif chain
FileKind(f) ==
    CASE f = "pkg_functions.csv" -> "functions"
      [] f = "pkg_parameters.csv" -> "parameters"
      [] f \in {"good.py", "bad.py", "_private.py"} -> "module"

\* custom_module_match.group(1)
ModuleName(f) ==
    CASE f = "good.py" -> "good" [] f = "bad.py" -> "bad"
      [] f = "_private.py" -> "_private"

\* spec.loader.exec_module(module) raises for this script
Raises(f) == f = "bad.py"

\* the order in which listdir returns the scripts
ListdirOrder == <<"bad.py", "good.py", "_private.py">>

\* resources/functions.csv and resources/parameters.csv: the index
BasicFuncs == <<"filter_raw", "epoch_raw">>
BasicParams == <<"highpass", "lowpass">>

\* the index of a package's <pkg>_functions.csv and <pkg>_parameters.csv;
\* the functions file of pkgB holds two rows with the name custom_b
CsvFuncs(d) == IF d = "pkgA" THEN <<"filter_raw", "custom_a">>
               ELSE <<"custom_a", "custom_b", "custom_b">>
CsvParams(d) == IF d = "pkgA" THEN <<"highpass", "param_a">>
                ELSE <<"param_a", "param_b">>

\* file_dict after the loop over listdir(pkg_path)
FileDict(pkg) ==
    LET listed == {f \in pkg.files : ~HiddenFile(f)}
        csv(kind) == IF \E f \in listed : FileKind(f) = kind
                     THEN PyStr(CHOOSE f \in listed : FileKind(f) = kind)
                     ELSE PyNone
    IN  [functions |-> csv("functions"),
         parameters |-> csv("parameters"),
         modules |-> PyList(SelectSeq(ListdirOrder,
                               LAMBDA f : f \in listed /\ FileKind(f) = "module"))]

\* all([value is not None or value != [] for value in file_dict.values()])
WholeSet(file_dict) ==
    \A k \in DOMAIN file_dict :
       file_dict[k] # PyNone \/ file_dict[k] # PyList(<<>>)

Index(rows) == {rows[i].name : i \in 1..Len(rows)}
Names(xs) == {xs[i] : i \in 1..Len(xs)}

\* (mutant) the CSV files of every package can be read
ReadCsvRaises_Never(pkg, file_dict) == FALSE

\* pd.read_csv(functions_path), pd.read_csv(parameters_path) raise
ReadCsvRaises(pkg, file_dict) ==
    \/ file_dict.functions = PyNone
    \/ file_dict.parameters = PyNone
    \/ ~pkg.csv_ok

\* one pass of the loop over the directories of custom_pkg_path
ImportPackage(st, pkg) ==
    LET file_dict == FileDict(pkg)
        modules == file_dict.modules[2]
        good == SelectSeq(modules, LAMBDA f : ~Raises(f))
        bad == SelectSeq(modules, LAMBDA f : Raises(f))
        correct_count == Len(good)
        module_errs == [i \in 1..Len(bad) |->
                           [kind |-> "error", pkg |-> pkg.name,
                            about |-> {ModuleName(bad[i])}]]
        executed == [st EXCEPT
                        !.all_modules = Put(@, pkg.name,
                                            {ModuleName(good[i]) : i \in 1..Len(good)}),
                        !.dialogs = @ \o module_errs]
        read_pd_funcs == [i \in 1..Len(CsvFuncs(pkg.name)) |->
                             [name |-> CsvFuncs(pkg.name)[i], pkg_name |-> pkg.name]]
        read_pd_params == CsvParams(pkg.name)
    IN  IF WholeSet(file_dict)
        THEN IF Len(modules) = correct_count
             THEN IF ReadCsvRaises(pkg, file_dict)
                  THEN [executed EXCEPT
                           !.dialogs = Append(@, [kind |-> "error", pkg |-> pkg.name,
                                                  about |-> {"package"}])]
                  ELSE [executed EXCEPT
                           !.pd_funcs = @ \o SelectSeq(read_pd_funcs,
                                   LAMBDA r : r.name \notin Index(st.pd_funcs)),
                           !.pd_params = @ \o SelectSeq(read_pd_params,
                                   LAMBDA x : x \notin Names(st.pd_params))]
             ELSE executed
        ELSE [st EXCEPT
                 !.dialogs = Append(@, [kind |-> "warning", pkg |-> pkg.name,
                      about |-> {k \in DOMAIN file_dict : file_dict[k] = PyNone}])]

RECURSIVE ImportAll(_, _, _)
\* `for directory in [d for d in os.scandir(...) if not d.name.startswith('.')]`
ImportAll(st, ps, i) ==
    IF i > Len(ps) THEN st
    ELSE ImportAll(IF HiddenDir(ps[i].name) THEN st ELSE ImportPackage(st, ps[i]),
                   ps, i + 1)

\* the content of directory d
Content(d, filesA, filesB, okA, okB) ==
    CASE d = "pkgA" -> [name |-> d, files |-> filesA, csv_ok |-> okA]
      [] d = "pkgB" -> [name |-> d, files |-> filesB, csv_ok |-> okB]
      [] d = ".git" -> [name |-> d, files |-> FileNames, csv_ok |-> TRUE]

\* the orders in which scandir may return some of the directories
ScanOrders ==
    UNION {{o \in [1..k -> DirNames] : \A i, j \in 1..k : i # j => o[i] # o[j]} :
           k \in 0..Cardinality(DirNames)}

ImpInit ==
    /\ \E o \in ScanOrders, filesA \in SUBSET FileNames, filesB \in SUBSET FileNames,
          okA \in BOOLEAN, okB \in BOOLEAN :
          pkgs = [i \in 1..Len(o) |-> Content(o[i], filesA, filesB, okA, okB)]
    /\ pd_funcs = <<>> /\ pd_params = <<>> /\ all_modules = EmptyDict
    /\ dialogs = <<>> /\ imported = FALSE

\* import_custom_modules
ImportCustomModules ==
    LET start == [pd_funcs |-> [i \in 1..Len(BasicFuncs) |->
                                   [name |-> BasicFuncs[i], pkg_name |-> "basic"]],
                  pd_params |-> BasicParams,
                  all_modules |-> EmptyDict,
                  dialogs |-> <<>>]
        done == ImportAll(start, pkgs, 1)
    IN  /\ pd_funcs' = done.pd_funcs
        /\ pd_params' = done.pd_params
        /\ all_modules' = done.all_modules
        /\ dialogs' = done.dialogs
        /\ imported' = TRUE
        /\ UNCHANGED <<notImp, pkgs>>

ImpNext == ImportCustomModules

InitImp == ImpInit /\ DriverIdle /\ GuiIdle /\ OldIdle /\ SelIdle /\ DictIdle /\ PathIdle
               /\ BtsIdle
               /\ HpIdle
               /\ FbIdle
               /\ MfIdle
SpecImp == InitImp /\ [][ImpNext]_vars

(***************************************************************************)
(* pipeline_functions/gui_functions.py: Start and Stop of the older        *)
(* window, and the worker of a run of the dock-based window                *)
(***************************************************************************)
OldFuncs == {"filter_raw", "epoch_raw"}

\* closeEvent: settings.setValue('func_checked', self.func_dict)
OldClosed ==
    /\ old_win' = "closed"
    /\ func_checked' = func_dict

\* select_func: the button of a function was toggled
SelectFunc ==
    /\ old_win = "shown"
    /\ \E function \in OldFuncs, isChecked \in BOOLEAN :
          func_dict' = [func_dict EXCEPT ![function] = IF isChecked THEN 1 ELSE 0]
    /\ old_last' = "select_func"
    /\ UNCHANGED <<notOld, old_win, make_it_stop, func_checked, main_pc,
                   steps_run, cancel, wk_pc, wk_started, wk_done, wk_late>>

\* clear
OldClear ==
    /\ old_win = "shown"
    /\ func_dict' = [x \in DOMAIN func_dict |-> 0]
    /\ old_last' = "clear"
    /\ UNCHANGED <<notOld, old_win, make_it_stop, func_checked, main_pc,
                   steps_run, cancel, wk_pc, wk_started, wk_done, wk_late>>

\* start: self.close()
OldStart ==
    /\ old_win = "shown"
    /\ OldClosed
    /\ old_last' = "start"
    /\ UNCHANGED <<notOld, func_dict, make_it_stop, main_pc, steps_run,
                   cancel, wk_pc, wk_started, wk_done, wk_late>>

\* (mutant) stop without `self.make_it_stop = True`
StopFlag_NotSet == make_it_stop

\* stop: the value stop() leaves in make_it_stop
StopFlag == TRUE

\* stop: self.close(); self.make_it_stop = True
OldStop ==
    /\ old_win = "shown"
    /\ OldClosed
    /\ make_it_stop' = StopFlag
    /\ old_last' = "stop"
    /\ UNCHANGED <<notOld, func_dict, main_pc, steps_run,
                   cancel, wk_pc, wk_started, wk_done, wk_late>>

\* the window is closed with the button of its title bar
OldCloseButton ==
    /\ old_win = "shown"
    /\ OldClosed
    /\ old_last' = "close"
    /\ UNCHANGED <<notOld, func_dict, make_it_stop, main_pc, steps_run,
                   cancel, wk_pc, wk_started, wk_done, wk_late>>

\* the main block after app.exec_() has returned:
\* `if make_it_stop: raise SystemExit(0)`
OldMain ==
    /\ main_pc = "exec" /\ old_win = "closed"
    /\ main_pc' = IF make_it_stop THEN "exit" ELSE "continue"
    /\ UNCHANGED <<notOld, old_win, func_dict, make_it_stop, func_checked,
                   steps_run, old_last, cancel, wk_pc, wk_started, wk_done,
                   wk_late>>

\* a step of the script that follows the window
ScriptStep ==
    /\ main_pc = "continue" /\ steps_run < MaxSteps
    /\ steps_run' = steps_run + 1
    /\ UNCHANGED <<notOld, old_win, func_dict, make_it_stop, func_checked,
                   main_pc, old_last, cancel, wk_pc, wk_started, wk_done,
                   wk_late>>

\* MainWindow.cancel_functions.emit(True)
RequestCancel ==
    /\ ~cancel /\ wk_pc \in {"between", "in_step"}
    /\ cancel' = TRUE
    /\ UNCHANGED <<notOld, old_win, func_dict, make_it_stop, func_checked,
                   main_pc, steps_run, old_last, wk_pc, wk_started, wk_done,
                   wk_late>>

\* the worker looks at the flag before it starts the next step
WorkerNext ==
    /\ wk_pc = "between"
    /\ IF cancel
       THEN /\ wk_pc' = "cancelled"
            /\ UNCHANGED <<wk_started, wk_late>>
       ELSE IF wk_done = MaxSteps
            THEN /\ wk_pc' = "finished"
                 /\ UNCHANGED <<wk_started, wk_late>>
            ELSE /\ wk_pc' = "in_step"
                 /\ wk_started' = wk_started + 1
                 /\ wk_late' = wk_late + (IF cancel THEN 1 ELSE 0)
    /\ UNCHANGED <<notOld, old_win, func_dict, make_it_stop, func_checked,
                   main_pc, steps_run, old_last, cancel, wk_done>>

\* the library call of the step returns
WorkerStepDone ==
    /\ wk_pc = "in_step"
    /\ wk_done' = wk_done + 1
    /\ wk_pc' = "between"
    /\ UNCHANGED <<notOld, old_win, func_dict, make_it_stop, func_checked,
                   main_pc, steps_run, old_last, cancel, wk_started, wk_late>>

OldInit ==
    /\ old_win = "shown" /\ func_dict \in [OldFuncs -> {0, 1}]
    /\ make_it_stop = FALSE /\ func_checked = EmptyDict
    /\ main_pc = "exec" /\ steps_run = 0 /\ old_last = "none"
    /\ cancel = FALSE /\ wk_pc = "between"
    /\ wk_started = 0 /\ wk_done = 0 /\ wk_late = 0

OldNext ==
    \/ SelectFunc \/ OldClear \/ OldStart \/ OldStop \/ OldCloseButton
    \/ OldMain \/ ScriptStep \/ RequestCancel \/ WorkerNext \/ WorkerStepDone

InitOld == OldInit /\ DriverIdle /\ GuiIdle /\ ImpIdle /\ SelIdle /\ DictIdle /\ PathIdle
               /\ BtsIdle
               /\ HpIdle
               /\ FbIdle
               /\ MfIdle
SpecOld == InitOld /\ [][OldNext]_vars

(***************************************************************************)
(* Subject selection by range expression: suborg.file_selection, called by *)
(* Pipeline.py with which_file and the list of all files                   *)
(***************************************************************************)
Digits == <<"0", "1", "2", "3", "4", "5", "6", "7", "8", "9">>
DigitValue(c) == (CHOOSE d \in 1..10 : Digits[d] = c) - 1

RECURSIVE ToInt(_)
\* int(text) for a sequence of digits
ToInt(cs) ==
    IF cs = <<>> THEN 0
    ELSE 10 * ToInt(SubSeq(cs, 1, Len(cs) - 1)) + DigitValue(cs[Len(cs)])

RECURSIVE ToStr(_)
\* str(n)
ToStr(n) ==
    IF n < 10 THEN <<Digits[n + 1]>>
    ELSE ToStr(n \div 10) \o <<Digits[(n % 10) + 1]>>

\* text.find(c) + 1: the first position of c, 0 if there is none
Find(cs, c) ==
    IF \E i \in 1..Len(cs) : cs[i] = c
    THEN CHOOSE i \in 1..Len(cs) : cs[i] = c /\ \A j \in 1..(i - 1) : cs[j] # c
    ELSE 0

RECURSIVE Split(_, _)
\* text.split(sep)
Split(cs, sep) ==
    LET i == Find(cs, sep)
    IN  IF i = 0 THEN <<cs>>
        ELSE <<SubSeq(cs, 1, i - 1)>> \o Split(SubSeq(cs, i + 1, Len(cs)), sep)

\* the lines of a list of n files that one item names: 'all', 'x-y' or 'x'
ItemLines(item, n) ==
    IF item = <<"a", "l", "l">> THEN 1..n
    ELSE LET i == Find(item, "-")
         IN  IF i > 0
             THEN {k \in 1..n : /\ ToInt(SubSeq(item, 1, i - 1)) <= k
                                /\ k <= ToInt(SubSeq(item, i + 1, Len(item)))}
             ELSE {ToInt(item)} \cap 1..n

\* (mutant) a selection that ignores the items prefixed with '!'
Excluded_Ignored(items, n) == {}

\* the lines named by the items prefixed with '!'
Excluded(items, n) ==
    UNION {ItemLines(Tail(items[i]), n) :
              i \in {j \in 1..Len(items) : items[j] # <<>> /\ items[j][1] = "!"}}

\* the lines named by the items without '!'
Included(items, n) ==
    UNION {ItemLines(items[i], n) :
              i \in {j \in 1..Len(items) : items[j] # <<>> /\ items[j][1] # "!"}}

\* file_selection(which_file, all_files): the selected line numbers
FileSelectionOf(which, n) ==
    LET items == Split(which, ",")
    IN  Included(items, n) \ Excluded(items, n)

\* the numbers used in the selections that are tried
Picks == {1, 4, 6, 7, 20, NumFiles}

One(x) == [kind |-> "one", not |-> FALSE, x |-> x, y |-> x]
Range(x, y) == [kind |-> "range", not |-> FALSE, x |-> x, y |-> y]
All == [kind |-> "all", not |-> FALSE, x |-> 0, y |-> 0]
Not(item) == [item EXCEPT !.not = TRUE]

Items ==
    LET plain == {One(x) : x \in Picks} \cup {All}
                    \cup {r \in {Range(x, y) : x \in Picks, y \in Picks} : r.x <= r.y}
    IN  plain \cup {Not(item) : item \in plain}

\* the examples of the comment in Pipeline.py and of sub_sel_example
Example_1_20_not_4_6 == <<Range(1, 20), Not(Range(4, 6))>>
Example_1_4_7_20_26 == <<Range(1, 4), One(7), Range(20, 26)>>
Example_all_not_4_6 == <<All, Not(Range(4, 6))>>

Selections ==
    {<<a>> : a \in Items} \cup {<<a, b>> : a \in Items, b \in Items}
       \cup {Example_1_4_7_20_26}

\* how the user writes an item and a selection
WriteItem(item) ==
    (IF item.not THEN <<"!">> ELSE <<>>) \o
    (CASE item.kind = "all" -> <<"a", "l", "l">>
       [] item.kind = "one" -> ToStr(item.x)
       [] item.kind = "range" -> ToStr(item.x) \o <<"-">> \o ToStr(item.y))

RECURSIVE Write(_)
Write(sel) ==
    IF Len(sel) = 1 THEN WriteItem(sel[1])
    ELSE WriteItem(sel[1]) \o <<",">> \o Write(Tail(sel))

SelInit ==
    /\ sel_expr \in Selections
    /\ which_file = Write(sel_expr)
    /\ all_files \in {5, NumFiles}
    /\ selected = {} /\ sel_done = FALSE

\* subjects = suborg.file_selection(which_file, all_subjects)
FileSelection ==
    /\ ~sel_done
    /\ selected' = FileSelectionOf(which_file, all_files)
    /\ sel_done' = TRUE
    /\ UNCHANGED <<notSel, which_file, sel_expr, all_files>>

SelNext == FileSelection

InitSel == SelInit /\ DriverIdle /\ GuiIdle /\ ImpIdle /\ OldIdle /\ DictIdle /\ PathIdle
               /\ BtsIdle
               /\ HpIdle
               /\ FbIdle
               /\ MfIdle
SpecSel == InitSel /\ [][SelNext]_vars

(***************************************************************************)
(* pipeline_functions/gui_functions.py: the operations of SubDictDialog on *)
(* a dictionary file (sub_dict, erm_dict)                                  *)
(***************************************************************************)
\* the items of list_widget1 (lines of the file list), in order, and of
\* list_widget2
ListWidget1 == << <<"a">>, <<"b">>, <<"a", "b">> >>
ListWidget2 == << <<"m">>, <<"n">> >>

\* f'{value}'
Format(value) == IF value = PyNone THEN <<"N", "o", "n", "e">> ELSE value[2]

\* f'{key}:{value}\n'
Line(key, value) == key \o <<":">> \o Format(value) \o <<"\n">>

\* `for item in file`: the lines of a text, each with its newline
Readlines(text) ==
    LET pieces == Split(text, "\n")
        whole == [i \in 1..(Len(pieces) - 1) |-> pieces[i] \o <<"\n">>]
    IN  IF pieces[Len(pieces)] = <<>> THEN whole
        ELSE Append(whole, pieces[Len(pieces)])

\* (mutant) an assignment that never looks for the key
DictSet_Append(d, key, value) == Append(d, [key |-> key, value |-> value])

\* d[key] = value on a dict, kept as its entries in insertion order
DictSet(d, key, value) ==
    IF \E i \in 1..Len(d) : d[i].key = key
    THEN [i \in 1..Len(d) |-> IF d[i].key = key
                              THEN [key |-> key, value |-> value] ELSE d[i]]
    ELSE Append(d, [key |-> key, value |-> value])

RECURSIVE ReadItems(_, _)
\* suborg.read_sub_dict: the key is what stands before the first colon of a
\* line, the value what follows it, without the newline
ReadItems(items, d) ==
    IF items = <<>> THEN d
    ELSE LET item == Head(items)
             i == Find(item, ":")
         IN  ReadItems(Tail(items),
                       IF i = 0 THEN d
                       ELSE DictSet(d, SubSeq(item, 1, i - 1),
                                    PyStr(SubSeq(item, i + 1, Len(item) - 1))))

read_sub_dict(text) == ReadItems(Readlines(text), <<>>)

RECURSIVE WriteDict(_)
\* `for key, value in d.items(): sd.write(f'{key}:{value}\n')`
WriteDict(d) ==
    IF d = <<>> THEN <<>>
    ELSE Line(d[1].key, d[1].value) \o WriteDict(Tail(d))

RECURSIVE Concat(_)
Concat(items) == IF items = <<>> THEN <<>> ELSE Head(items) \o Concat(Tail(items))

\* the body shared by sub_dict_assign and sub_dict_assign_none
AssignedText(key, value) ==
    IF ~dict_isfile THEN Line(key, value)
    ELSE WriteDict(DictSet(read_sub_dict(dict_text), key, value))

\* sub_dict_assign
SubDictAssign ==
    /\ \E i \in 1..Len(ListWidget1), j \in 1..Len(ListWidget2) :
          LET choice1 == ListWidget1[i]
              choice2 == ListWidget2[j]
          IN  /\ dict_text' = AssignedText(choice1, PyStr(choice2))
              /\ dict_last' = [op |-> "assign", key |-> choice1,
                               isfile |-> dict_isfile, text |-> dict_text]
    /\ dict_isfile' = TRUE
    /\ UNCHANGED notDict

\* sub_dict_assign_none
SubDictAssignNone ==
    /\ \E i \in 1..Len(ListWidget1) :
          LET choice == ListWidget1[i]
          IN  /\ dict_text' = AssignedText(choice, PyNone)
              /\ dict_last' = [op |-> "assign_none", key |-> choice,
                               isfile |-> dict_isfile, text |-> dict_text]
    /\ dict_isfile' = TRUE
    /\ UNCHANGED notDict

RECURSIVE AllItems(_, _)
\* `for i in range(list_widget1.count()): all_items.update({...: None})`
AllItems(items, d) ==
    IF items = <<>> THEN d
    ELSE AllItems(Tail(items), DictSet(d, Head(items), PyNone))

\* sub_dict_assign_all_none
SubDictAssignAllNone ==
    /\ \E reply \in {"Yes", "No"} :
          IF reply = "Yes"
          THEN /\ dict_text' = WriteDict(AllItems(ListWidget1, <<>>))
               /\ dict_isfile' = TRUE
               /\ dict_last' = [op |-> "assign_all_none", key |-> <<>>,
                                isfile |-> dict_isfile, text |-> dict_text]
          ELSE /\ dict_last' = [op |-> "assign_all_none_refused", key |-> <<>>,
                                isfile |-> dict_isfile, text |-> dict_text]
               /\ UNCHANGED <<dict_text, dict_isfile>>
    /\ UNCHANGED notDict

\* delete_last; open(dict_path, 'r') raises when the file does not exist
DeleteLast ==
    /\ IF dict_isfile
       THEN LET dlist == Readlines(dict_text)
            IN  dict_text' = Concat(SubSeq(dlist, 1, Len(dlist) - 1))
       ELSE UNCHANGED dict_text
    /\ dict_last' = [op |-> "delete_last", key |-> <<>>,
                     isfile |-> dict_isfile, text |-> dict_text]
    /\ UNCHANGED <<notDict, dict_isfile>>

\* the file as path set-up leaves it: missing, or created empty
DictInit ==
    /\ dict_isfile \in BOOLEAN /\ dict_text = <<>>
    /\ dict_last = [op |-> "none"]

DictNext ==
    \/ SubDictAssign \/ SubDictAssignNone \/ SubDictAssignAllNone \/ DeleteLast

InitDict == DictInit /\ DriverIdle /\ GuiIdle /\ ImpIdle /\ OldIdle /\ SelIdle /\ PathIdle
               /\ BtsIdle
               /\ HpIdle
               /\ FbIdle
               /\ MfIdle
SpecDict == InitDict /\ [][DictNext]_vars

(***************************************************************************)
(* Path set-up: Pipeline.py 175-192, make_paths of the older window and    *)
(* make_base_paths of the dock-based window                                *)
(***************************************************************************)
\* a path is the sequence of its names; join(path, 'a/b') appends a and b
Home == <<"home">>
Prefixes(p) == {SubSeq(p, 1, k) : k \in 1..Len(p)}
Dirname(p) == SubSeq(p, 1, Len(p) - 1)

\* Pipeline.py: the paths of the driver script
DriverProject == Home \o <<"Test">>
DriverDataPath == DriverProject \o <<"Daten">>
DriverScripts == DriverDataPath \o <<"_Subject_scripts">>
DriverFigures(erm) ==
    IF erm THEN DriverProject \o <<"Figures", "ERM_Figures">>
    ELSE DriverProject \o <<"Figures">>
DriverPathList(erm) ==
    <<Home \o <<"Freesurfer", "Output">>, DriverProject \o <<"Dateien">>,
      DriverDataPath, DriverScripts, DriverFigures(erm)>>
DriverFileList ==
    [i \in 1..7 |->
        DriverScripts \o <<(<<"sub_list.py", "erm_list.py", "motor_erm_list.py",
                              "mri_sub_list.py", "sub_dict.py", "erm_dict.py",
                              "bad_channels_dict.py">>)[i]>>]

\* make_paths of the older window, for project_name p
OldPathLists(p) ==
    <<Home \o <<"Freesurfer">>, Home \o <<p, "meg">>, Home \o <<p, "data">>,
      Home \o <<p, "data", "empty_room_data">>, Home \o <<p, "_pipeline_scripts">> >>
OldFileLists(p) ==
    [i \in 1..8 |->
        Home \o <<p, "_pipeline_scripts",
                  (<<"file_list.py", "erm_list.py", "motor_erm_list.py",
                     "mri_sub_list.py", "sub_dict.py", "erm_dict.py",
                     "bad_channels_dict.py", "quality.py">>)[i]>>]

\* make_base_paths of the dock-based window
BasePaths ==
    <<Home \o <<"projects">>, Home \o <<"freesurfer">>, Home \o <<"custom_packages">> >>

\* exists(path), isdir(path)
Exists(fs, p) == p \in fs.dirs \/ p \in DOMAIN fs.files
IsDir(fs, p) == p \in fs.dirs

\* (mutant) a set-up that does not look whether the file is there
IsFile_Ignored(fs, f) == FALSE

\* isfile(file)
IsFile(fs, f) == f \in DOMAIN fs.files

RECURSIVE MakeDirs(_, _, _)
\* `for p in path_list: if not exists(p): makedirs(p)`
MakeDirs(fs, path_list, i) ==
    IF i > Len(path_list) THEN fs
    ELSE MakeDirs(IF Exists(fs, path_list[i]) THEN fs
                  ELSE [fs EXCEPT !.dirs = @ \cup Prefixes(path_list[i])],
                  path_list, i + 1)

RECURSIVE MkDirs(_, _, _)
\* `for path in [...]: if not isdir(path): os.mkdir(path)`; os.mkdir raises
\* when the parent is missing or the path is a file
MkDirs(fs, path_list, i) ==
    IF i > Len(path_list) THEN fs
    ELSE IF IsDir(fs, path_list[i]) THEN MkDirs(fs, path_list, i + 1)
    ELSE IF Dirname(path_list[i]) \in fs.dirs /\ ~Exists(fs, path_list[i])
    THEN MkDirs([fs EXCEPT !.dirs = @ \cup {path_list[i]}], path_list, i + 1)
    ELSE [fs EXCEPT !.raised = TRUE]

RECURSIVE MakeFiles(_, _, _)
\* `for f in file_list: if not isfile(f): open(f, 'w').write('')`; open
\* raises when the directory of f is missing or f is a directory
MakeFiles(fs, file_list, i) ==
    IF i > Len(file_list) THEN fs
    ELSE IF IsFile(fs, file_list[i]) THEN MakeFiles(fs, file_list, i + 1)
    ELSE IF Dirname(file_list[i]) \in fs.dirs /\ file_list[i] \notin fs.dirs
    THEN MakeFiles([fs EXCEPT !.files = Put(@, file_list[i], "")],
                   file_list, i + 1)
    ELSE [fs EXCEPT !.raised = TRUE]

Now == [dirs |-> fs_dirs, files |-> fs_files, raised |-> FALSE]

\* the two loops of Pipeline.py and of make_paths
SetUp(fs, path_list, file_list) ==
    MakeFiles(MakeDirs(fs, path_list, 1), file_list, 1)

\* what a set-up leaves behind
Done(op, fs, path_list, file_list) ==
    /\ fs_dirs' = fs.dirs
    /\ fs_files' = fs.files
    /\ path_last' = [op |-> op, path_list |-> path_list, file_list |-> file_list,
                     dirs |-> fs_dirs, files |-> fs_files, raised |-> fs.raised]

\* Pipeline.py 175-192
DriverSetUp ==
    /\ \E erm \in BOOLEAN :
          Done("driver", SetUp(Now, DriverPathList(erm), DriverFileList),
               DriverPathList(erm), DriverFileList)
    /\ UNCHANGED <<notPath, project_name>>

OldProjects == {"p1", "p2"}

\* make_paths
MakePaths(op, p) ==
    Done(op, SetUp(Now, OldPathLists(p), OldFileLists(p)),
         OldPathLists(p), OldFileLists(p))

\* MainWindow.__init__ of the older window: get_paths(); make_paths()
OldWindowStart ==
    /\ \E p \in OldProjects :
          /\ project_name' = p
          /\ MakePaths("start", p)
    /\ UNCHANGED notPath

\* add_project of the older window
OldAddProject ==
    /\ project_name # ""
    /\ \E project \in OldProjects, ok \in BOOLEAN :
          IF ok
          THEN /\ project_name' = project
               /\ MakePaths("add_project", project)
          ELSE /\ path_last' = [op |-> "none"]
               /\ UNCHANGED <<fs_dirs, fs_files, project_name>>
    /\ UNCHANGED notPath

\* change_project of the older window
OldChangeProject ==
    /\ project_name # ""
    /\ \E project \in OldProjects :
          /\ project_name' = project
          /\ MakePaths("change_project", project)
    /\ UNCHANGED notPath

\* make_base_paths
MakeBasePaths ==
    /\ Done("make_base_paths", MkDirs(Now, BasePaths, 1), BasePaths, <<>>)
    /\ UNCHANGED <<notPath, project_name>>

\* the files whose content the program changes between two set-ups
WrittenFiles ==
    {DriverFileList[1], DriverFileList[5], OldFileLists("p1")[1],
     OldFileLists("p1")[5], OldFileLists("p2")[1]}

\* a list or dictionary file gets an entry (add_files, sub_dict_assign, ...)
WriteEntry ==
    /\ \E f \in WrittenFiles \cap DOMAIN fs_files :
          /\ fs_files[f] = ""
          /\ fs_files' = [fs_files EXCEPT ![f] = "entry\n"]
    /\ path_last' = [op |-> "none"]
    /\ UNCHANGED <<notPath, fs_dirs, project_name>>

\* the home path exists; folders of projects may exist from an earlier use
PathInit ==
    /\ \E earlier \in SUBSET {Home \o <<"p1", "data">>, Home \o <<"Test">>,
                              Home \o <<"projects">>} :
          fs_dirs = {Home} \cup UNION {Prefixes(p) : p \in earlier}
    /\ fs_files = EmptyDict
    /\ project_name = ""
    /\ path_last = [op |-> "none"]

PathNext ==
    \/ DriverSetUp \/ OldWindowStart \/ OldAddProject \/ OldChangeProject
    \/ MakeBasePaths \/ WriteEntry

InitPath == PathInit /\ DriverIdle /\ GuiIdle /\ ImpIdle /\ OldIdle /\ SelIdle
               /\ DictIdle
               /\ BtsIdle
               /\ HpIdle
               /\ FbIdle
               /\ MfIdle
SpecPath == InitPath /\ [][PathNext]_vars

(***************************************************************************)
(* gui/main_window.py: the function buttons (add_func_bts and the handlers *)
(* that read or write pr.sel_functions and bt_dict).                       *)
(***************************************************************************)
\* the 'module' column of pd_funcs: function -> module
FuncModule ==
    [f \in {"filter_raw", "plot_raw", "custom_a"} |->
        CASE f = "filter_raw" -> "operations"
          [] f = "plot_raw"   -> "plot"
          [] f = "custom_a"   -> "pkgA_module"]

Modules == {FuncModule[f] : f \in DOMAIN FuncModule}

\* the sel_functions a project may have stored: any keys, also one of a
\* function that is no longer in pd_funcs
StoredSel ==
    UNION {[keys -> {0, 1}] : keys \in SUBSET (DOMAIN FuncModule \cup {"old_func"})}

\* cleaned_pd_funcs.index: the functions whose module is selected
Cleaned(mods) == {f \in DOMAIN FuncModule : FuncModule[f] \in mods}

\* pr.sel_functions after add_func_bts: untouched when cleaned_pd_funcs is
\* empty, otherwise stale keys popped and new keys added with 0
SelAfter(sf, mods) ==
    IF Cleaned(mods) = {} THEN sf
    ELSE [f \in Cleaned(mods) |-> IF f \in DOMAIN sf THEN sf[f] ELSE 0]

\* bt_dict after add_func_bts: one new button per function of
\* cleaned_pd_funcs, checked when its value is truthy
BtsAfter(bd, sf, mods) ==
    IF Cleaned(mods) = {} THEN bd
    ELSE [f \in DOMAIN bd \cup Cleaned(mods) |->
            IF f \in Cleaned(mods) THEN SelAfter(sf, mods)[f] # 0 ELSE bd[f]]

\* the buttons in tab_func_widget after add_func_bts
TabsAfter(tb, mods) ==
    IF Cleaned(mods) = {} THEN tb
    ELSE [f \in DOMAIN tb |-> IF f \in Cleaned(mods) THEN tb[f] + 1 ELSE tb[f]]

NoTabs == [f \in DOMAIN FuncModule |-> 0]

BtsInit ==
    /\ bts_win = "closed"
    /\ selected_modules \in SUBSET Modules
    /\ sel_functions \in StoredSel
    /\ bt_dict = EmptyDict
    /\ tab_bts = NoTabs
    /\ bts_last = [op |-> "none"]

\* init_main_widget: the first add_func_bts, on the empty bt_dict
InitMainWidget ==
    /\ bts_win = "closed"
    /\ bts_win' = "shown"
    /\ sel_functions' = SelAfter(sel_functions, selected_modules)
    /\ bt_dict' = BtsAfter(bt_dict, sel_functions, selected_modules)
    /\ tab_bts' = TabsAfter(tab_bts, selected_modules)
    /\ bts_last' = [op |-> "add_func_bts", before |-> sel_functions]
    /\ UNCHANGED <<selected_modules, notBts>>

\* update_func_bts with the selected modules mods
UpdateFuncBts(mods) ==
    /\ sel_functions' = SelAfter(sel_functions, mods)
    /\ bt_dict' = BtsAfter(EmptyDict, sel_functions, mods)
    /\ tab_bts' = TabsAfter(NoTabs, mods)
    /\ bts_last' = [op |-> "update_func_bts", before |-> sel_functions]

\* resizeEvent after the first initialisation
ResizeEvent ==
    /\ bts_win = "shown"
    /\ UpdateFuncBts(selected_modules)
    /\ UNCHANGED <<bts_win, selected_modules, notBts>>

\* change_home_path: the settings of the new home path select other
\* modules, then update_func_and_param
HomePathChanged ==
    /\ bts_win = "shown"
    /\ \E mods \in SUBSET Modules :
        /\ selected_modules' = mods
        /\ UpdateFuncBts(mods)
    /\ UNCHANGED <<bts_win, notBts>>

\* func_selected: the click has toggled the button
FuncSelected ==
    /\ bts_win = "shown"
    /\ \E f \in DOMAIN bt_dict :
        /\ bt_dict' = [bt_dict EXCEPT ![f] = ~bt_dict[f]]
        /\ sel_functions' =
               [g \in DOMAIN sel_functions \cup {f} |->
                   IF g = f THEN (IF bt_dict[f] THEN 0 ELSE 1)
                   ELSE sel_functions[g]]
    /\ bts_last' = [op |-> "func_selected"]
    /\ UNCHANGED <<bts_win, selected_modules, tab_bts, notBts>>

\* clear
BtsClear ==
    /\ bts_win = "shown"
    /\ bt_dict' = [f \in DOMAIN bt_dict |-> FALSE]
    /\ sel_functions' =
           [g \in DOMAIN sel_functions \cup DOMAIN bt_dict |->
               IF g \in DOMAIN bt_dict THEN 0 ELSE sel_functions[g]]
    /\ bts_last' = [op |-> "clear"]
    /\ UNCHANGED <<bts_win, selected_modules, tab_bts, notBts>>

\* project_updated: another project, with its own sel_functions, then
\* update_selected_funcs
ProjectUpdated ==
    /\ bts_win = "shown"
    /\ \E sf \in StoredSel :
        /\ sel_functions' = sf
        /\ bt_dict' = [f \in DOMAIN bt_dict |->
                          IF f \in DOMAIN sf THEN sf[f] # 0 ELSE FALSE]
    /\ bts_last' = [op |-> "project_updated"]
    /\ UNCHANGED <<bts_win, selected_modules, tab_bts, notBts>>

BtsNext ==
    \/ InitMainWidget \/ ResizeEvent \/ HomePathChanged \/ FuncSelected
    \/ BtsClear \/ ProjectUpdated

InitBts == BtsInit /\ DriverIdle /\ GuiIdle /\ ImpIdle /\ OldIdle
               /\ SelIdle /\ DictIdle /\ PathIdle
               /\ HpIdle
               /\ FbIdle
               /\ MfIdle
SpecBts == InitBts /\ [][BtsNext]_vars

(***************************************************************************)
(* gui/main_window.py: get_home_path                                       *)
(***************************************************************************)
\* the paths a stored or chosen home path may name: what is there, and
\* whether the user may write to it
HpFs ==
    [p \in {"/data", "/data2", "/readonly", "/file"} |->
        CASE p = "/data"     -> [kind |-> "dir", writable |-> TRUE]
          [] p = "/data2"    -> [kind |-> "dir", writable |-> TRUE]
          [] p = "/readonly" -> [kind |-> "dir", writable |-> FALSE]
          [] p = "/file"     -> [kind |-> "file", writable |-> TRUE]]

\* qsettings.value('home_path'): nothing, the empty string or a path, also
\* one that was removed since
StoredHomes ==
    {PyNone, PyStr("")} \cup {PyStr(p) : p \in DOMAIN HpFs \cup {"/removed"}}

\* QFileDialog.getExistingDirectory: '' when cancelled, else a directory
Chosen == {PyStr("")} \cup {PyStr(p) : p \in {q \in DOMAIN HpFs : HpFs[q].kind = "dir"}}

BaseNames == {"projects", "freesurfer", "custom_packages"}

\* isdir(hp)
HpIsDir(v) == v[2] \in DOMAIN HpFs /\ HpFs[v[2]].kind = "dir"

\* (mutant) every path counts as writable
HpAccess_Always(v) == TRUE

\* os.access(hp, os.W_OK)
HpAccess(v) == v[2] \in DOMAIN HpFs /\ HpFs[v[2]].writable

\* the if/elif chain at the head of the loop shows a dialog
Prompts(v) == v = PyNone \/ v = PyStr("") \/ ~HpIsDir(v) \/ ~HpAccess(v)

HpInit ==
    /\ hp_stored \in StoredHomes
    /\ hp = hp_stored
    /\ hp_pc = "checking"
    /\ hp_home = PyNone
    /\ hp_base \in [{p \in DOMAIN HpFs : HpFs[p].kind = "dir"} -> SUBSET BaseNames]
    /\ hp_n = 0
    /\ hp_last = [op |-> "none"]

\* one pass of `while checking_home_path:`; choice is what the directory
\* dialog returns, yes the answer to 'Cancel Start?'
CheckHomePath(choice, yes) ==
    LET prompted == Prompts(hp)
        hp1 == IF prompted THEN choice ELSE hp
        pass == [op |-> "pass", hp |-> hp, prompted |-> prompted,
                 asked |-> hp1 = PyStr(""), yes |-> hp1 = PyStr("") /\ yes]
    IN  /\ hp_pc = "checking"
        /\ hp_n < MaxPrompts
        /\ hp_n' = hp_n + 1
        /\ hp' = hp1
        /\ hp_last' = pass
        /\ IF hp1 = PyStr("")
           THEN /\ hp_pc' = IF yes THEN "raised" ELSE "checking"
                /\ UNCHANGED <<hp_home, hp_stored, hp_base>>
           ELSE IF ~HpAccess(hp1)
           THEN UNCHANGED <<hp_pc, hp_home, hp_stored, hp_base>>
           ELSE /\ hp_home' = PyStr(hp1[2])
                /\ hp_stored' = PyStr(hp1[2])
                /\ hp_base' = Put(hp_base, hp1[2], BaseNames)
                /\ hp_pc' = "returned"
        /\ UNCHANGED notHp

GetHomePath == \E choice \in Chosen, yes \in BOOLEAN : CheckHomePath(choice, yes)

HpNext == GetHomePath

InitHp == HpInit /\ DriverIdle /\ GuiIdle /\ ImpIdle /\ OldIdle
               /\ SelIdle /\ DictIdle /\ PathIdle /\ BtsIdle
               /\ FbIdle
               /\ MfIdle
SpecHp == InitHp /\ [][HpNext]_vars

(***************************************************************************)
(* pipeline_functions/gui_functions.py: make_func_bts, the function        *)
(* buttons of the older window and their cache 'func_checked'.             *)
(***************************************************************************)
\* the functions a version of the program may offer, and one it offers no
\* more
FbFuncs == {"filter_raw", "epoch_raw", "plot_raw"}
FbNames == FbFuncs \cup {"old_func"}

\* opd.all_fs: the functions with their default selection
Registries == UNION {[fs -> {0, 1}] : fs \in SUBSET FbFuncs}

\* pre_func_dict after the keys that are not in opd.all_fs were deleted
PreFuncDict(cache, fs) == [k \in DOMAIN cache \cap DOMAIN fs |-> cache[k]]

\* (mutant) the cached value wins over the default
Merged_CacheFirst(fs, cached, cache) ==
    [f \in DOMAIN fs |->
        IF cached /\ f \in DOMAIN cache THEN cache[f] ELSE fs[f]]

\* func_dict after the loops over opd.all_fs and pre_func_dict
Merged(fs, cached, cache) ==
    [f \in DOMAIN fs |->
        IF cached /\ f \in DOMAIN PreFuncDict(cache, fs) /\ fs[f] = 0
        THEN PreFuncDict(cache, fs)[f]
        ELSE fs[f]]

FbInit ==
    /\ all_fs = EmptyDict
    /\ fb_cached \in BOOLEAN
    /\ fb_cache \in UNION {[ks -> {0, 1}] : ks \in SUBSET FbNames}
    /\ fb_cached = FALSE => fb_cache = EmptyDict
    /\ fb_pc = "closed"
    /\ fb_func_dict = EmptyDict /\ fb_bt_dict = EmptyDict
    /\ fb_last = [op |-> "none"]

\* MainWindow.__init__ of a program with the registry fs: func_dict and
\* bt_dict start empty, then make_func_bts
MakeFuncBts ==
    /\ fb_pc = "closed"
    /\ \E fs \in Registries :
          LET merged == Merged(fs, fb_cached, fb_cache)
          IN  /\ all_fs' = fs
              /\ fb_bt_dict' = [f \in DOMAIN fs |-> merged[f] # 0]
              /\ fb_func_dict' = [f \in DOMAIN fs |-> IF merged[f] # 0 THEN 1 ELSE merged[f]]
              /\ fb_last' = [op |-> "make_func_bts", cached |-> fb_cached,
                             cache |-> fb_cache,
                             pre |-> PreFuncDict(fb_cache, fs)]
    /\ fb_pc' = "shown"
    /\ UNCHANGED <<fb_cached, fb_cache, notFb>>

\* select_func: the button of a function was toggled
FbSelectFunc ==
    /\ fb_pc = "shown"
    /\ \E f \in DOMAIN fb_bt_dict :
          /\ fb_bt_dict' = [fb_bt_dict EXCEPT ![f] = ~fb_bt_dict[f]]
          /\ fb_func_dict' = [fb_func_dict EXCEPT ![f] = IF fb_bt_dict[f] THEN 0 ELSE 1]
    /\ fb_last' = [op |-> "select_func"]
    /\ UNCHANGED <<all_fs, fb_cached, fb_cache, fb_pc, notFb>>

\* closeEvent: settings.setValue('func_checked', self.func_dict)
FbCloseEvent ==
    /\ fb_pc = "shown"
    /\ fb_pc' = "closed"
    /\ fb_cached' = TRUE
    /\ fb_cache' = fb_func_dict
    /\ fb_last' = [op |-> "closeEvent"]
    /\ UNCHANGED <<all_fs, fb_func_dict, fb_bt_dict, notFb>>

FbNext == MakeFuncBts \/ FbSelectFunc \/ FbCloseEvent

InitFb == FbInit /\ DriverIdle /\ GuiIdle /\ ImpIdle /\ OldIdle
               /\ SelIdle /\ DictIdle /\ PathIdle /\ BtsIdle
               /\ HpIdle
               /\ MfIdle
SpecFb == InitFb /\ [][FbNext]_vars

(***************************************************************************)
(* custom_functions/melofix.py: melofix_event_handling                     *)
(***************************************************************************)
Marker == 58
EventIds == {Marker, 5, 6}

\* the arrays io.read_events may return
EventArrays == UNION {[1..k -> EventIds] : k \in 0..MaxEvents}

\* events[i, 2] for a Python index i, which counts from the end when it is
\* negative; InRange is false where numpy raises IndexError
InRange(ev, i) == -Len(ev) <= i /\ i < Len(ev)
At(ev, i) == IF i >= 0 THEN ev[i + 1] ELSE ev[Len(ev) + i + 1]
SetAt(ev, i, v) == [ev EXCEPT ![IF i >= 0 THEN i + 1 ELSE Len(ev) + i + 1] = v]

\* (mutant) every group of four is taken for the fixed paradigm
AllEqual_Always(ev, n) == TRUE

\* events[n - 1, 2] == events[n-2, 2] == events[n-3, 2] == events[n-4, 2]
AllEqual(ev, n) ==
    /\ At(ev, n - 1) = At(ev, n - 2)
    /\ At(ev, n - 2) = At(ev, n - 3)
    /\ At(ev, n - 3) = At(ev, n - 4)

\* the four assignments of one branch
Relabel(ev, n, onset, rest) ==
    SetAt(SetAt(SetAt(SetAt(ev, n - 4, onset), n - 3, rest), n - 2, rest),
          n - 1, rest)

\* the body of the loop for one n
LoopBody(ev, n) ==
    IF At(ev, n) # Marker THEN ev
    ELSE IF AllEqual(ev, n) THEN Relabel(ev, n, 1, 2)
    ELSE Relabel(ev, n, 3, 4)

MfInit ==
    /\ events \in EventArrays
    /\ mf_pc = "read"
    /\ mf_n = 0
    /\ eve_file = PyNone
    /\ mf_last = [op |-> "none"]

\* the events are read; `assert len(events) != 0`
ReadEvents ==
    /\ mf_pc = "read"
    /\ mf_pc' = IF Len(events) = 0 THEN "raised" ELSE "loop"
    /\ mf_last' = [op |-> "read"]
    /\ UNCHANGED <<events, mf_n, eve_file, notMf>>

\* one pass of `for n in range(len(events))`; an index before the start of
\* the array raises IndexError before anything is assigned
MarkerStep ==
    /\ mf_pc = "loop"
    /\ mf_n < Len(events)
    /\ mf_last' = [op |-> "step", n |-> mf_n, before |-> events]
    /\ IF At(events, mf_n) = Marker /\ ~InRange(events, mf_n - 4)
       THEN /\ mf_pc' = "raised"
            /\ UNCHANGED <<events, mf_n>>
       ELSE /\ events' = LoopBody(events, mf_n)
            /\ mf_n' = mf_n + 1
            /\ UNCHANGED mf_pc
    /\ UNCHANGED <<eve_file, notMf>>

\* mne.event.write_events(events_path, events)
WriteEvents ==
    /\ mf_pc = "loop"
    /\ mf_n = Len(events)
    /\ eve_file' = PyList(events)
    /\ mf_pc' = "written"
    /\ mf_last' = [op |-> "write"]
    /\ UNCHANGED <<events, mf_n, notMf>>

MfNext == ReadEvents \/ MarkerStep \/ WriteEvents

InitMf == MfInit /\ DriverIdle /\ GuiIdle /\ ImpIdle /\ OldIdle
               /\ SelIdle /\ DictIdle /\ PathIdle /\ BtsIdle
               /\ HpIdle /\ FbIdle
SpecMf == InitMf /\ [][MfNext]_vars

(***************************************************************************)
(* Claims about the driver script                                          *)
(***************************************************************************)
PhaseNo(site) == CASE site = "org" -> 1 [] site = "mri" -> 2
                   [] site = "subject" -> 3 [] site = "group" -> 4
TableOf(site) == CASE site = "org" -> OrgSteps [] site = "mri" -> MriSteps
                   [] site = "subject" -> SubjectSteps
                   [] site = "group" -> GroupSteps
PosOf(c) == CHOOSE i \in 1..Len(TableOf(c.site)) : TableOf(c.site)[i].key = c.key
\* c was called strictly earlier in script order than d
Before(c, d) ==
    \/ PhaseNo(c.site) < PhaseNo(d.site)
    \/ /\ PhaseNo(c.site) = PhaseNo(d.site)
       /\ \/ c.subj < d.subj
          \/ c.subj = d.subj /\ PosOf(c) < PosOf(d)
StepCalls == SelectSeq(calls, LAMBDA c : c.site # "recover")
Enabled(table) == {i \in 1..Len(table) : table[i].key \in exec_ops}

\* C2: the conditional calls are made in script order: the calls of one
\* subject in the order of the script, every call of a subject before any
\* call of the next subject, a group-level call only once the subject loop
\* has run for every selected subject, and never a call whose exec_ops key
\* is off; a run that reaches the end has made every enabled call for every
\* selected subject.
C2_ScriptOrder ==
    /\ \A i, j \in 1..Len(StepCalls) :
          i < j => Before(StepCalls[i], StepCalls[j])
    /\ \A i \in 1..Len(StepCalls) :
          /\ StepCalls[i].key \in exec_ops
          /\ StepCalls[i].site = "group" =>
                pc.phase \in {"group", "done", "failed"} /\ pc.si = Len(subjects)
    /\ pc.phase = "done" =>
          \A n \in 1..Len(subjects) : \A p \in Enabled(SubjectSteps) :
             \E i \in 1..Len(StepCalls) :
                /\ StepCalls[i].site = "subject"
                /\ StepCalls[i].subj = subjects[n]
                /\ StepCalls[i].key = SubjectSteps[p].key

C2_Witness ==
    /\ pc.phase = "done" /\ Len(subjects) = 2
    /\ exec_ops = {"filter_raw", "corr_ntr"}
    /\ Len(StepCalls) = 4

Handled(s, dict, msg, fn) ==
    s \notin dict =>
       /\ \E i \in 1..Len(printed) : printed[i] = <<msg, s>>
       /\ \E i \in 1..Len(calls) :
             calls[i].site = "recover" /\ calls[i].key = fn /\ calls[i].subj = s

\* C3: a subject without an entry in erm_dict, sub_to_mri or
\* bad_channels_dict gets the message and the call of the add function, and
\* the run goes on with the steps of that subject instead of failing.
C3_MissingEntryDoesNotFail ==
    /\ \A n \in 1..pc.si :
          pc.phase \in {"loop", "next", "group", "done", "failed"} =>
             /\ Handled(subjects[n], erm_dict, "No erm_measurement for", "add_erm_dict")
             /\ Handled(subjects[n], sub_to_mri, "No mri_subject assigned to", "add_sub_dict")
             /\ Handled(subjects[n], bad_channels_dict, "No bad channels for",
                        "add_bad_channels_dict")
    /\ failed \notin {"ermsub", "subtomri", "bad_channels"}

\* C5: every call that receives an overwrite argument receives the value of
\* the one global 'overwrite'.
C5_SingleOverwriteFlag ==
    \A i \in 1..Len(calls) : calls[i].ow # "none" => calls[i].owval = overwrite

(***************************************************************************)
(* Claims about the dock-based main window                                 *)
(***************************************************************************)
\* C1: at most one run is active at any time; start() called while
\* pipeline_running is true shows the 'Already running' warning and creates
\* no RunDialog, and a RunDialog is created only when no run is active.
C1_OneRunAtATime ==
    /\ active_runs <= 1
    /\ gui_last.op = "start" =>
          /\ gui_last.running => gui_last.warned /\ ~gui_last.created
          /\ gui_last.created => ~gui_last.running /\ ~gui_last.warned

C1_Witness ==
    /\ gui_last.op = "start" /\ gui_last.running /\ gui_last.warned
    /\ active_runs = 1 /\ pipeline_running

\* C6: after closeEvent's save_main the settings file of the home path
\* holds the settings, with 'current_project' the window's current project;
\* a load_settings that follows a save_main (of closeEvent, start or a
\* project switch) yields the saved value for every saved key, and so does
\* the load_settings of the next start of the program.
C6_SettingsSurviveRestart ==
    /\ gui_last.op = "close" =>
          /\ home_path \in json_exists
          /\ json_file[home_path] = Dump(settings)
          /\ json_file[home_path]["current_project"] = <<"string", current_project>>
    /\ \/ gui_last.op \in {"close", "project_changed", "add_project_cancelled",
                           "change_home_path_cancelled"}
       \/ gui_last.op = "start" /\ gui_last.saved
       => \A k \in DOMAIN settings :
             LoadSettings(home_path, json_exists, json_file)[k] = settings[k]
    /\ gui_last.op = "init" /\ DOMAIN closed_with # {} =>
          \A k \in DOMAIN closed_with.settings \cup {"current_project"} :
             /\ k \in DOMAIN loaded
             /\ loaded[k] = IF k = "current_project"
                            THEN PyStr(closed_with.project)
                            ELSE closed_with.settings[k]

C6_Witness ==
    /\ gui_last.op = "init" /\ DOMAIN closed_with # {}
    /\ closed_with.project = "p3"
    /\ closed_with.settings["dark_mode"] = PyBool(TRUE)
    /\ loaded["current_project"] = PyStr("p3")
    /\ loaded["selected_modules"] = default_settings["selected_modules"]

(***************************************************************************)
(* Claims about import_custom_modules                                      *)
(***************************************************************************)
\* a directory holding a functions CSV, a parameters CSV and a script
Complete(pkg) ==
    LET file_dict == FileDict(pkg)
    IN  /\ file_dict.functions # PyNone
        /\ file_dict.parameters # PyNone
        /\ file_dict.modules[2] # <<>>

\* what is missing in a directory, as the warning would name it
Missing(pkg) ==
    LET file_dict == FileDict(pkg)
    IN  {k \in {"functions", "parameters"} : file_dict[k] = PyNone}
           \cup (IF file_dict.modules[2] = <<>> THEN {"modules"} ELSE {})

\* C4: after import_custom_modules a directory of the custom-package path is
\* registered as a package exactly when it holds a functions CSV, a
\* parameters CSV and at least one script; for a directory that lacks one of
\* them no module is loaded, no row of it is in the registry and a warning
\* about its missing files has been shown.
C4_OnlyWholePackagesRegistered ==
    imported =>
       \A i \in 1..Len(pkgs) :
          LET pkg == pkgs[i]
          IN  ~HiddenDir(pkg.name) =>
                 /\ pkg.name \in DOMAIN all_modules <=> Complete(pkg)
                 /\ ~Complete(pkg) =>
                       /\ pkg.name \in DOMAIN all_modules =>
                             all_modules[pkg.name] = {}
                       /\ \A r \in 1..Len(pd_funcs) :
                             pd_funcs[r].pkg_name # pkg.name
                       /\ \E d \in 1..Len(dialogs) :
                             /\ dialogs[d].kind = "warning"
                             /\ dialogs[d].pkg = pkg.name
                             /\ dialogs[d].about \subseteq Missing(pkg)
                             /\ dialogs[d].about # {}

(***************************************************************************)
(* Claims about cancellation                                               *)
(***************************************************************************)
\* C7: cancellation takes effect between steps. In the older window Start
\* closes the window with make_it_stop still False, and after Stop the main
\* block raises SystemExit, so no step of the script runs. Once cancellation
\* has been requested from the dock-based window the worker starts no further
\* step, and the step in progress is completed, not interrupted.
C7_CooperativeCancellation ==
    /\ old_last = "start" => old_win = "closed" /\ ~make_it_stop
    /\ old_last = "stop" =>
          /\ old_win = "closed" /\ make_it_stop
          /\ main_pc # "continue" /\ steps_run = 0
    /\ make_it_stop => steps_run = 0
    /\ main_pc = "exit" => make_it_stop
    /\ wk_late = 0
    /\ wk_pc = "cancelled" => cancel
    /\ wk_pc # "in_step" => wk_started = wk_done
    /\ wk_pc = "in_step" => wk_started = wk_done + 1

C7_Witness ==
    /\ old_last = "stop" /\ main_pc = "exit"
    /\ cancel /\ wk_pc = "cancelled" /\ wk_done = 2 /\ wk_started = 2

(***************************************************************************)
(* Claims about the subject selection                                      *)
(***************************************************************************)
\* the lines of 1..n that an item of a selection stands for
Meant(item, n) ==
    CASE item.kind = "all" -> 1..n
      [] item.kind = "one" -> {item.x} \cap 1..n
      [] item.kind = "range" -> {k \in 1..n : item.x <= k /\ k <= item.y}

\* C8: for a list of N files the selection string is a comma-separated list
\* of line numbers, ranges 'x-y', 'all' and exclusions prefixed with '!';
\* the selected set is the union of the included numbers and ranges minus
\* every excluded one: '1-20,!4-6' selects 1 to 20 except 4 to 6,
\* '1-4,7,20-26' selects 1-4, 7 and 20-26, 'all,!4-6' all files except 4-6.
C8_RangeSelection ==
    sel_done =>
       /\ selected =
             UNION {Meant(sel_expr[i], all_files) :
                       i \in {j \in 1..Len(sel_expr) : ~sel_expr[j].not}}
             \ UNION {Meant(sel_expr[i], all_files) :
                       i \in {j \in 1..Len(sel_expr) : sel_expr[j].not}}
       /\ which_file = <<"1", "-", "2", "0", ",", "!", "4", "-", "6">>
             /\ all_files >= 20
          => selected = (1..20) \ (4..6)
       /\ which_file = <<"1", "-", "4", ",", "7", ",", "2", "0", "-", "2", "6">>
             /\ all_files >= 26
          => selected = (1..4) \cup {7} \cup (20..26)
       /\ which_file = <<"a", "l", "l", ",", "!", "4", "-", "6">>
          => selected = (1..all_files) \ (4..6)

C8_Witness ==
    /\ sel_done /\ all_files >= 26
    /\ which_file = <<"1", "-", "2", "0", ",", "!", "4", "-", "6">>
    /\ selected = {1, 2, 3} \cup (7..20)

(***************************************************************************)
(* Claims about the dictionary files                                       *)
(***************************************************************************)
\* the text before the first colon of a line
KeyOf(line) == SubSeq(line, 1, Find(line, ":") - 1)

\* C9: after any sequence of sub_dict_assign, sub_dict_assign_none,
\* sub_dict_assign_all_none and delete_last the file consists only of
\* newline-terminated lines 'key:value', one entry per line, and no key
\* stands on two lines; sub_dict_assign(k, v) leaves the line of every other
\* key as it was and where it was.
C9_DictFileWellFormed ==
    LET lines == Readlines(dict_text)
        before == IF dict_last.op = "none" THEN <<>> ELSE Readlines(dict_last.text)
    IN  /\ \A i \in 1..Len(lines) :
              /\ lines[i][Len(lines[i])] = "\n"
              /\ Find(lines[i], ":") > 1
              /\ Find(SubSeq(lines[i], 1, Len(lines[i]) - 1), "\n") = 0
        /\ \A i, j \in 1..Len(lines) :
              i # j => KeyOf(lines[i]) # KeyOf(lines[j])
        /\ dict_last.op \in {"assign", "assign_none"} =>
              /\ Len(lines) >= Len(before)
              /\ \A i \in 1..Len(before) :
                    KeyOf(before[i]) # dict_last.key => lines[i] = before[i]
              /\ \E i \in 1..Len(lines) : KeyOf(lines[i]) = dict_last.key

C9_Witness ==
    /\ dict_last.op = "assign" /\ dict_last.key = <<"a">>
    /\ dict_last.text = <<"a", "b", ":", "m", "\n", "a", ":", "N", "o", "n", "e", "\n",
                          "b", ":", "n", "\n">>
    /\ dict_text = <<"a", "b", ":", "m", "\n", "a", ":", "n", "\n", "b", ":", "n", "\n">>

(***************************************************************************)
(* Claims about the path set-up                                            *)
(***************************************************************************)
\* C10: after a path set-up (the driver's start-up, or make_paths of the
\* older window on start, add_project and change_project) every directory
\* and every list or dictionary file of its lists exists; every directory
\* and file that existed before is still there, a file with the content it
\* had; and running the same set-up again changes nothing.
C10_SetUpCreatesAndKeeps ==
    path_last.op # "none" =>
       /\ ~path_last.raised
       /\ Names(path_last.path_list) \subseteq fs_dirs
       /\ Names(path_last.file_list) \subseteq DOMAIN fs_files
       /\ path_last.dirs \subseteq fs_dirs
       /\ \A f \in DOMAIN path_last.files :
             f \in DOMAIN fs_files /\ fs_files[f] = path_last.files[f]
       /\ \A f \in DOMAIN fs_files :
             f \notin DOMAIN path_last.files => fs_files[f] = ""
       /\ LET again == IF path_last.op = "make_base_paths"
                       THEN MkDirs(Now, path_last.path_list, 1)
                       ELSE SetUp(Now, path_last.path_list, path_last.file_list)
          IN  again = Now

C10_Witness ==
    /\ path_last.op = "change_project" /\ project_name = "p1"
    /\ OldFileLists("p1")[5] \in DOMAIN path_last.files
    /\ fs_files[OldFileLists("p1")[5]] = "entry\n"
    /\ fs_files[OldFileLists("p1")[2]] = ""
    /\ DriverFileList[1] \in DOMAIN fs_files

(***************************************************************************)
(* Claims about the settings of the dock-based window                      *)
(***************************************************************************)
\* C11: after load_settings every key of default_settings is a key of
\* settings; a key stored in the file has its stored value, a key missing
\* from the file its default, and without a file the settings are the
\* defaults. get_setting(k) is settings[k] when k is a key and
\* default_settings[k] otherwise.
C11_LoadSettingsDefaults ==
    /\ gui_last.op = "init" =>
          /\ DOMAIN default_settings \subseteq DOMAIN loaded
          /\ home_path \in json_exists =>
                /\ \A k \in DOMAIN json_file[home_path] :
                      loaded[k] = FromJson(json_file[home_path][k])
                /\ \A k \in DOMAIN default_settings \ DOMAIN json_file[home_path] :
                      loaded[k] = default_settings[k]
          /\ home_path \notin json_exists => loaded = default_settings
    /\ win = "open" =>
          \A k \in DOMAIN default_settings :
             /\ k \in DOMAIN settings
             /\ GetSetting(settings, k) = settings[k]
             /\ GetSetting(Load(OlderFile), k) =
                   IF k \in DOMAIN OlderFile THEN FromJson(OlderFile[k])
                   ELSE default_settings[k]

C11_Witness ==
    /\ gui_last.op = "init" /\ home_path \in json_exists
    /\ "dpi" \notin DOMAIN json_file[home_path]
    /\ loaded["dpi"] = PyInt(300)
    /\ loaded["dark_mode"] = PyBool(TRUE)

\* C12: change_home_path, add_project, remove_project and project_changed
\* save the former project and the settings (save_main) before
\* current_project, home_path or the Project object change: the Project
\* saved is the former one, and the settings file of the former home path
\* names the former project. When the dialog of change_home_path or
\* add_project is cancelled, current_project, home_path, projects and the
\* Project object are as they were.
C12_SaveBeforeSwitch ==
    gui_last.op \in {"project_changed", "add_project", "add_project_cancelled",
                     "change_home_path", "change_home_path_cancelled",
                     "remove_project"} =>
       LET before == gui_last.before
       IN  /\ gui_last.saved_pr = before.pr
           /\ before.home_path \in json_exists
           /\ json_file[before.home_path]["current_project"] =
                 <<"string", before.current_project>>
           /\ gui_last.op \in {"add_project_cancelled",
                               "change_home_path_cancelled"} =>
                 /\ current_project = before.current_project
                 /\ home_path = before.home_path
                 /\ projects = before.projects
                 /\ pr = before.pr

C12_Witness ==
    /\ gui_last.op = "change_home_path"
    /\ gui_last.before.home_path = "h1" /\ home_path = "h2"
    /\ gui_last.before.current_project = "p3" /\ current_project = "p2"
    /\ json_file["h1"]["current_project"] = <<"string", "p3">>

\* C13: when start() begins a run, save_main has saved the project and the
\* settings before the modules are reloaded and the RunDialog is created,
\* so the file holds the settings also when the reload raised; when start()
\* is rejected because a run is active, nothing is saved, reloaded or
\* created.
C13_StartSavesFirst ==
    gui_last.op = "start" =>
       IF gui_last.running
       THEN /\ gui_last.warned
            /\ ~gui_last.saved /\ ~gui_last.reloaded /\ ~gui_last.created
            /\ settings = gui_last.before.settings
            /\ json_file = gui_last.before.json_file
            /\ json_exists = gui_last.before.json_exists
       ELSE /\ gui_last.saved /\ gui_last.saved_pr = pr
            /\ home_path \in json_exists
            /\ json_file[home_path] = Dump(settings)
            /\ settings["current_project"] = PyStr(current_project)
            /\ gui_last.created => gui_last.reloaded

C13_Witness ==
    /\ gui_last.op = "start" /\ ~gui_last.running
    /\ gui_last.saved /\ ~gui_last.reloaded /\ ~gui_last.created
    /\ gui_last.before.json_file[home_path] # json_file[home_path]
    /\ json_file[home_path]["dark_mode"] = <<"true">>
    /\ json_file[home_path]["current_project"] = <<"string", "p3">>

(***************************************************************************)
(* Claims about the function buttons                                       *)
(***************************************************************************)
\* C14: after add_func_bts, and so after every update_func_bts, the keys of
\* pr.sel_functions are exactly the functions whose module is selected, a
\* new key has the value 0 and a key that stays keeps its value, and each of
\* these functions has exactly one button, checked iff its value is truthy.
C14_SelFunctionsFollowModules ==
    bts_last.op \in {"add_func_bts", "update_func_bts"} =>
        /\ DOMAIN sel_functions = Cleaned(selected_modules)
        /\ \A f \in DOMAIN sel_functions :
               sel_functions[f] =
                   IF f \in DOMAIN bts_last.before THEN bts_last.before[f] ELSE 0
        /\ DOMAIN bt_dict = Cleaned(selected_modules)
        /\ \A f \in DOMAIN bt_dict :
               /\ tab_bts[f] = 1
               /\ bt_dict[f] <=> (f \in DOMAIN sel_functions /\ sel_functions[f] # 0)

(***************************************************************************)
(* Claims about the registry of functions and parameters                   *)
(***************************************************************************)
\* a visible script of the directory raises, or one of its CSV files is
\* absent or unreadable
ImportFails(pkg) ==
    \/ "bad.py" \in pkg.files
    \/ "pkg_functions.csv" \notin pkg.files
    \/ "pkg_parameters.csv" \notin pkg.files
    \/ ~pkg.csv_ok

\* the directories import_custom_modules visits
Visited == {i \in 1..Len(pkgs) : pkgs[i].name # ".git"}

\* C15: a package with a script that raises or a CSV file that cannot be
\* read gets an error dialog and none of its functions or parameters are in
\* pd_funcs/pd_params; the other packages are imported all the same, and the
\* built-in functions and parameters stay registered.
C15_ImportAllOrNothing ==
    imported =>
       /\ Len(pd_funcs) >= Len(BasicFuncs) /\ Len(pd_params) >= Len(BasicParams)
       /\ \A r \in 1..Len(BasicFuncs) :
             pd_funcs[r] = [name |-> BasicFuncs[r], pkg_name |-> "basic"]
       /\ SubSeq(pd_params, 1, Len(BasicParams)) = BasicParams
       /\ \A i \in Visited :
             IF ImportFails(pkgs[i])
             THEN /\ \E d \in 1..Len(dialogs) :
                        dialogs[d].kind = "error" /\ dialogs[d].pkg = pkgs[i].name
                  /\ \A r \in 1..Len(pd_funcs) : pd_funcs[r].pkg_name # pkgs[i].name
             ELSE /\ Names(CsvFuncs(pkgs[i].name)) \subseteq Index(pd_funcs)
                  /\ Names(CsvParams(pkgs[i].name)) \subseteq Names(pd_params)
       /\ \A r \in 1..Len(pd_funcs) :
             pd_funcs[r].pkg_name # "basic" =>
                \E i \in Visited : /\ pkgs[i].name = pd_funcs[r].pkg_name
                                   /\ ~ImportFails(pkgs[i])
       /\ \A x \in Names(pd_params) \ Names(BasicParams) :
             \E i \in Visited : /\ ~ImportFails(pkgs[i])
                                /\ x \in Names(CsvParams(pkgs[i].name))

C15_Witness ==
    /\ imported
    /\ Len(pkgs) = 2
    /\ pkgs[1].name = "pkgA" /\ "bad.py" \in pkgs[1].files
    /\ {"pkg_functions.csv", "pkg_parameters.csv", "good.py"} \subseteq pkgs[1].files
    /\ pkgs[1].csv_ok
    /\ pkgs[2].name = "pkgB" /\ ~ImportFails(pkgs[2])
    /\ [name |-> "custom_b", pkg_name |-> "pkgB"] \in {pd_funcs[r] : r \in 1..Len(pd_funcs)}
    /\ "param_a" \in Names(pd_params)
    /\ \E d \in 1..Len(dialogs) : dialogs[d].kind = "error" /\ dialogs[d].pkg = "pkgA"

\* the rows of pd_funcs with the name f
RowsOf(f) == {r \in 1..Len(pd_funcs) : pd_funcs[r].name = f}

\* the first visited package that did not fail and whose CSV names f
FirstWith(f) ==
    LET with == {i \in Visited : /\ ~ImportFails(pkgs[i])
                                 /\ f \in Names(CsvFuncs(pkgs[i].name))}
    IN  pkgs[CHOOSE i \in with : \A j \in with : i <= j].name

\* C16: a custom package never replaces or duplicates a registered function
\* or parameter: a row whose name is already registered is not appended, so
\* the built-in entry, or the entry of the package imported first, is kept,
\* and after import_custom_modules no name appears twice in the index.
C16_NoDuplicateNames ==
    imported =>
       /\ \A f \in Index(pd_funcs) :
             /\ Cardinality(RowsOf(f)) = 1
             /\ \A r \in RowsOf(f) :
                   pd_funcs[r].pkg_name =
                       IF f \in Names(BasicFuncs) THEN "basic" ELSE FirstWith(f)
       /\ \A i, j \in 1..Len(pd_params) : pd_params[i] = pd_params[j] => i = j

(***************************************************************************)
(* Claims about the home path                                              *)
(***************************************************************************)
\* a path that cannot serve as home path: empty, missing, no directory or
\* not writable
Unusable(v) ==
    \/ v \in {PyNone, PyStr("")}
    \/ v[2] \notin DOMAIN HpFs
    \/ HpFs[v[2]].kind # "dir"
    \/ ~HpFs[v[2]].writable

\* C17: get_home_path returns only with home_path a non-empty, existing,
\* writable directory that is stored under 'home_path' and whose base
\* directories exist; an empty, missing or unwritable stored or chosen path
\* makes the next pass prompt again, and the loop ends without a home path
\* only by RuntimeError after the user confirmed cancelling.
C17_HomePathUsable ==
    /\ hp_pc = "returned" =>
          /\ ~Unusable(hp_home)
          /\ hp_stored = hp_home
          /\ hp_base[hp_home[2]] = BaseNames
    /\ hp_home = PyNone => hp_pc \in {"checking", "raised"}
    /\ hp_pc = "raised" =>
          /\ hp_home = PyNone
          /\ hp_last.op = "pass" /\ hp_last.asked /\ hp_last.yes
    /\ hp_pc = "checking" /\ hp_n > 0 => Unusable(hp) /\ Prompts(hp)
    /\ hp_last.op = "pass" => (hp_last.prompted <=> Unusable(hp_last.hp))

C17_Witness ==
    /\ hp_pc = "returned" /\ hp_n = 3
    /\ hp_home = PyStr("/data2") /\ hp_stored = PyStr("/data2")
    /\ hp_last.op = "pass" /\ hp_last.prompted /\ hp_last.hp = PyStr("/readonly")

(***************************************************************************)
(* Claims about the function buttons of the older window                   *)
(***************************************************************************)
\* C18: at start-up of the older window a function whose default in
\* opd.all_fs is truthy is checked whatever the cache says, a function whose
\* default is falsy takes the cached value if there is one and is unchecked
\* otherwise, cached entries of functions that are not in the registry are
\* deleted, and func_dict has exactly the functions of the registry as keys.
C18_DefaultOverridesCache ==
    fb_last.op = "make_func_bts" =>
       /\ DOMAIN fb_func_dict = DOMAIN all_fs
       /\ DOMAIN fb_bt_dict = DOMAIN all_fs
       /\ DOMAIN fb_last.pre = {k \in DOMAIN fb_last.cache : k \in DOMAIN all_fs}
       /\ \A f \in DOMAIN all_fs :
             LET checked ==
                    \/ all_fs[f] # 0
                    \/ /\ fb_last.cached
                       /\ f \in DOMAIN fb_last.cache
                       /\ fb_last.cache[f] # 0
             IN  /\ fb_bt_dict[f] = checked
                 /\ fb_func_dict[f] = IF checked THEN 1 ELSE 0

C18_Witness ==
    /\ fb_last.op = "make_func_bts" /\ fb_last.cached
    /\ DOMAIN all_fs = FbFuncs
    /\ DOMAIN fb_last.cache = {"old_func", "filter_raw", "epoch_raw"}
    /\ "old_func" \notin DOMAIN fb_last.pre
    /\ all_fs["filter_raw"] = 1 /\ fb_last.cache["filter_raw"] = 0
    /\ fb_bt_dict["filter_raw"]
    /\ all_fs["epoch_raw"] = 0 /\ fb_last.cache["epoch_raw"] = 1
    /\ fb_bt_dict["epoch_raw"]
    /\ all_fs["plot_raw"] = 0 /\ "plot_raw" \notin DOMAIN fb_last.cache
    /\ ~fb_bt_dict["plot_raw"]

(***************************************************************************)
(* Claims about the events of the melody-fixed paradigm                    *)
(***************************************************************************)
\* the ids of the array after the pass for the marker at index n >= 4, as
\* the rule gives them from the ids b before the pass (1-based positions)
RuleAt(b, n) ==
    LET fixed == b[n - 3] = b[n - 2] /\ b[n - 2] = b[n - 1] /\ b[n - 1] = b[n]
    IN  [i \in 1..Len(b) |->
            IF i = n - 3 THEN (IF fixed THEN 1 ELSE 3)
            ELSE IF i \in {n - 2, n - 1, n} THEN (IF fixed THEN 2 ELSE 4)
            ELSE b[i]]

\* C19: for every event at index n >= 4 whose id is 58, if the ids of the
\* events n-4..n-1, as they are when the marker is reached, are all equal,
\* event n-4 gets id 1 and events n-3..n-1 get id 2, otherwise event n-4
\* gets id 3 and events n-3..n-1 get id 4; an event that is no marker changes
\* nothing, and the relabelled events are what is written to the -eve.fif
\* file.
C19_MarkerRule ==
    /\ mf_last.op = "step" =>
          LET n == mf_last.n
              b == mf_last.before
          IN  /\ n >= 4 /\ b[n + 1] = Marker =>
                    /\ mf_pc = "loop"
                    /\ events = RuleAt(b, n)
              /\ b[n + 1] # Marker => events = b
    /\ mf_pc = "written" => eve_file = PyList(events) /\ mf_n = Len(events)
    /\ mf_pc # "written" => eve_file = PyNone

C19_Witness ==
    /\ mf_pc = "written"
    /\ eve_file = PyList(<<1, 3, 4, 4, 4, Marker>>)
    /\ mf_n = 6

=============================================================================
